---- MODULE Spec2Model ----
(***************************************************************************)
(* One AudioHook session of the Genesys <-> OpenAI Realtime bridge:        *)
(* AudioHookServer (src/audio_hook_server.py) driven by the carrier read   *)
(* loop handle_genesys_connection (src/oai_middleware.py), with its        *)
(* OpenAIRealtimeClient (src/openai_client.py), the provider reader task,  *)
(* the downlink pacer task and the audio tasks spawned by the on-audio     *)
(* callback.  Every asyncio task is a process with a program counter that  *)
(* names the await it is suspended at; one action is the code that runs    *)
(* between two suspension points.                                          *)
(*                                                                         *)
(* rate_limiter.py is not part of the sources: RateLimiter is modelled     *)
(* from section 4.6 of the specification (token bucket) and section 5      *)
(* (awaiting a token is a suspension point).                               *)
(***************************************************************************)
EXTENDS Integers, Sequences, FiniteSets, TLC

\* ---------------------------------------------------------------- bounds
\* Number of pings and unhandled messages the carrier sends in one session
\* (open, close, error and malformed messages are bounded by the protocol).
MaxCarrierMsgs == 1
\* Number of provider events delivered to the reader task.
MaxProviderEvents == 2
\* Token-bucket capacities, scaled down from the configured burst of 25.
MsgBurst == 1
BinBurst == 1
\* Downlink buffer capacity, scaled down from the configured 50.
MaxBuffer == 1
MaxOffer == 2
MaxAttempts == 5
MaxDelay == 2
MaxConnectTime == 1
MaxCalls == 3
GENESYS_MAX_ACTION_CALLS_PER_SESSION == 2
GENESYS_MAX_TOOL_ARGUMENT_BYTES == 4

\* --------------------------------------------------- program constants
RATE_LIMIT_MAX_RETRIES == 3
GENESYS_RATE_WINDOW == 1

\* ------------------------------------------------------------ constants
Tasks == {"main", "reader"}
NoClient ==
    [exists |-> FALSE, running |-> FALSE, ws |-> "none",
     last_response |-> "None", await_disc |-> FALSE, ctx |-> "None",
     future |-> "none"]
NoFrame == [type |-> "none"]

\* What handle_open reads of an `open` message: whether conversationId and
\* participant id are the all-zero UUID, and parameters.media.
OpenMsg(is_probe, offered_media) == [is_probe |-> is_probe, media |-> offered_media]
NoMsg == OpenMsg(FALSE, <<>>)

\* The provider handshake of OpenAIRealtimeClient.connect.  Time is counted
\* in seconds; time_since_last is time.time() - self.last_retry_time, kept
\* only up to one second past GENESYS_RATE_WINDOW (all the code asks of it
\* is whether it exceeds the window).  last_retry_time starts at 0, so at
\* first the difference is far beyond the window.
NoHandshake ==
    [pc |-> "idle", retry_count |-> 0,
     time_since_last |-> GENESYS_RATE_WINDOW + 1,
     delay |-> 0, site |-> "none", attempts |-> 0]

\* A field of a message or a header that may be missing: text is its
\* characters, one per element.
Absent == [present |-> FALSE, text |-> <<>>]
Text(chars) == [present |-> TRUE, text |-> chars]

\* No carrier 429 is being handled.
NoError ==
    [retryAfter |-> Absent, header |-> Absent, session_duration |-> 0,
     used_delay |-> 0, source |-> "none"]

\* Tool dispatch of a provider client before connect(): no policy, no call
\* seen, invocation_counter at 0.
CallIds == 1..MaxCalls
NoCall == [pc |-> "none", name |-> ""]
NoDispatch ==
    [provider |-> "openai", tool_choice |-> [kind |-> "None"],
     policy |-> [mode |-> "unset", allowed |-> {}],
     count |-> 0, executions |-> 0,
     calls |-> [i \in CallIds |-> NoCall],
     outputs |-> [i \in CallIds |-> <<>>],
     on_socket |-> {},
     ctx |-> "None", running |-> FALSE, reader |-> "none"]

\* The media entries a carrier may offer.
MediaEntries ==
    {[format |-> "PCMU", rate |-> 8000, channels |-> "external"],
     [format |-> "PCMU", rate |-> 8000, channels |-> "both"],
     [format |-> "PCMU", rate |-> 16000, channels |-> "external"],
     [format |-> "L16", rate |-> 8000, channels |-> "external"]}

\* Offers are media lists of at most MaxOffer entries.
Offers == UNION {[1..n -> MediaEntries] : n \in 0..MaxOffer}

VARIABLES
    \* AudioHookServer fields
    client_seq,      \* self.client_seq
    server_seq,      \* self.server_seq
    running,         \* self.running
    in_backoff,      \* self.rate_limit_state["in_backoff"]
    retry_count,     \* self.rate_limit_state["retry_count"]
    audio_buffer,    \* self.audio_buffer (deque of frames)
    client,          \* self.openai_client: NoClient or the client's fields
    \* Tasks
    pc,              \* pc[t]: the await task t is suspended at
    out,             \* out[t]: the frame task t has built and not yet sent
    reason,          \* reason[t]: reason of the disconnect_session t runs
    fut,             \* fut[t]: the summary future task t awaits
    pacer,           \* the _process_audio_buffer task
    pendingAudio,    \* frames held by handle_openai_audio tasks not yet run
    \* Rate limiters
    msgTokens,       \* message_limiter tokens
    binTokens,       \* binary_limiter tokens
    \* Environment
    wsOpen,          \* the carrier WebSocket is open
    nCarrier,        \* pings and unhandled messages received so far
    nProvider,       \* provider events received so far
    carrierSeq,      \* seq of the last carrier JSON message
    session_id,      \* self.session_id
    msg,             \* the `open` message handle_open is working on
    hs,              \* the provider handshake: connect() and handle_rate_limit
    err,             \* a carrier 429: what handle_error reads and the delay it uses
    td,              \* tool dispatch: policy, invocation counter, calls and outputs
    req,             \* an HTTP request and validate_request's response to it
    prompt,          \* create_final_system_prompt's arguments and its result
    pt,              \* the pacer against the clock: buffer, last_frame_time, frames sent
    ck,              \* the Gemini downlink chunker: pending bytes and frames delivered
    ho,              \* the clients and pacer tasks handle_open has created
    dc,              \* the disconnect context of the provider client and its callbacks
    \* Observation
    wire,            \* last JSON frame and last audio frame put on the carrier socket
    toProvider       \* events of the call-control flow, in order

\* The variables of the parts that are modelled on their own.
auxVars == <<hs, err, td, req, prompt, pt, ck, ho, dc>>

vars == <<client_seq, server_seq, running, in_backoff, retry_count,
          audio_buffer, client, pc, out, reason, fut, pacer, pendingAudio,
          msgTokens, binTokens, wsOpen, nCarrier, nProvider, carrierSeq,
          session_id, msg, hs, err, td, req, prompt, pt, ck, ho, dc, wire,
          toProvider>>


\* ----------------------------------------------------------------- Init
\* AudioHookServer.__init__; no client, no tasks but the carrier read loop.
InitSession ==
    /\ client_seq = 0
    /\ server_seq = 0
    /\ running = TRUE
    /\ in_backoff = FALSE
    /\ retry_count = 0
    /\ audio_buffer = <<>>
    /\ client = NoClient
    /\ pc = [t \in Tasks |-> IF t = "main" THEN "recv" ELSE "none"]
    /\ out = [t \in Tasks |-> NoFrame]
    /\ reason = [t \in Tasks |-> "none"]
    /\ fut = [t \in Tasks |-> "none"]
    /\ pacer = "none"
    /\ pendingAudio = <<>>
    /\ msgTokens = MsgBurst
    /\ binTokens = BinBurst
    /\ wsOpen = TRUE
    /\ nCarrier = 0
    /\ nProvider = 0
    /\ carrierSeq = 0
    /\ session_id = "uuid"
    /\ msg = NoMsg
    /\ hs = NoHandshake
    /\ wire = [json |-> [type |-> "none", seq |-> 0, clientseq |-> 0, param |-> "",
                         tokens |-> FALSE, summary |-> ""],
               audio |-> 0]
    /\ toProvider = <<>>

\* The parts modelled on their own, at rest.
NoRequest == [status |-> 0, body |-> "none"]
NoPrompt == [composed |-> FALSE]
NoPacing == [pc |-> "none"]
NoChunker == [pc |-> "none"]
NoOpens == [pc |-> "none"]
NoContext == [pc |-> "none"]
Init ==
    /\ InitSession
    /\ err = NoError /\ td = NoDispatch /\ req = NoRequest /\ prompt = NoPrompt
    /\ pt = NoPacing /\ ck = NoChunker /\ ho = NoOpens /\ dc = NoContext

\* -------------------------------------------------------------- helpers
\* A control frame as the handlers build it: seq is server_seq + 1 and
\* clientseq is self.client_seq, both read when the dict is built.
\* param is the frame's distinguishing parameter: the reason of a
\* `disconnect`, the media list of an `opened`.  tokens tells whether
\* outputVariables holds the six token counters, summary is the summary
\* the frame carries ("" none, "obj" a parsed object, "error" an error dict).
Frame(type, seq, cseq, prm, tok, summ) ==
    [type |-> type, seq |-> seq, clientseq |-> cseq, param |-> prm,
     tokens |-> tok, summary |-> summ]

\* RateLimiter.acquire: one token is consumed if available.
Granted(tokens) == tokens > 0
AfterAcquire(tokens) == IF Granted(tokens) THEN tokens - 1 ELSE tokens

\* _send_json after the token wait: the frame is dropped when no token was
\* granted, and ws.send raises ConnectionClosed on a closed socket.
WireAfterJson(f) ==
    IF Granted(msgTokens) /\ wsOpen THEN [wire EXCEPT !.json = f] ELSE wire
SendHitClosed == Granted(msgTokens) /\ ~wsOpen

NewClient ==
    [exists |-> TRUE, running |-> FALSE, ws |-> "none",
     last_response |-> "None", await_disc |-> FALSE, ctx |-> "None",
     future |-> "none"]

\* OpenAIRealtimeClient.close
CloseClient(c) ==
    IF c.exists THEN [c EXCEPT !.running = FALSE, !.ws = "none"] ELSE c

\* OpenAIRealtimeClient._safe_send puts the message on the provider socket
\* only when ws is set, running is true and the socket is open.
CanSend(c) == c.exists /\ c.running /\ c.ws = "open"

\* stop_audio_processing: cancel the pacer task if there is one.
StopPacer(p) == IF p \in {"sleep", "acquire"} THEN "done" ELSE p

InDisconnect(t) == pc[t] \in {"d_summary", "d_send", "d_wait"}

\* read_task.cancel() in OpenAIRealtimeClient.close
CancelReader(p, c) ==
    IF c.exists /\ p["reader"] \notin {"none", "done"}
    THEN [p EXCEPT !["reader"] = "done"] ELSE p

\* The end of a handler called from the carrier read loop: `while
\* session.running` is evaluated at once; when it fails the loop ends and
\* the cleanup closes the client (which cancels the reader task).
MainContinue(r, c, p, pcb) ==
    /\ running' = r
    /\ out' = [out EXCEPT !["main"] = NoFrame]
    /\ reason' = [reason EXCEPT !["main"] = "none"]
    /\ IF r
       THEN /\ pc' = [pcb EXCEPT !["main"] = "recv"]
            /\ client' = c
            /\ pacer' = p
            /\ fut' = [fut EXCEPT !["main"] = "none"]
       ELSE /\ pc' = [CancelReader(pcb, c) EXCEPT !["main"] = "done"]
            /\ client' = [CloseClient(c) EXCEPT !.future =
                             IF c.exists /\ pcb["reader"] = "d_summary"
                             THEN "none" ELSE c.future]
            /\ pacer' = IF c.exists /\ pcb["reader"] \in {"d_summary", "d_send", "d_wait"}
                        THEN StopPacer(p) ELSE p
            /\ fut' = [t \in Tasks |->
                          IF t = "main" \/ c.exists THEN "none" ELSE fut[t]]

\* The finally block of disconnect_session, and the tail of handle_close:
\* running is cleared, the pacer is cancelled, the client is closed.  The
\* task that ran it then leaves its loop.
Teardown(t) ==
    /\ running' = FALSE
    /\ pacer' = StopPacer(pacer)
    /\ client' = [CloseClient(client) EXCEPT !.future =
                     IF client.exists THEN "none" ELSE client.future]
    /\ pc' = [x \in Tasks |->
                 IF x = t THEN "done"
                 ELSE IF x = "reader" THEN CancelReader(pc, client)[x]
                 ELSE pc[x]]
    /\ out' = [x \in Tasks |->
                  IF x = t \/ (x = "reader" /\ client.exists) THEN NoFrame ELSE out[x]]
    /\ reason' = [reason EXCEPT ![t] = "none"]
    /\ fut' = [x \in Tasks |->
                  IF x = t \/ (x = "reader" /\ client.exists) THEN "none" ELSE fut[x]]

\* The entry of disconnect_session up to its first suspension, run by task
\* t with the client c: without a client generate_session_summary returns
\* None at once and the frame is built with no token metrics; with a client
\* the ending prompt is sent and the task waits for the summary future.
StartDisconnect(t, rsn, c, cseq, pcb) ==
    /\ reason' = [reason EXCEPT ![t] = rsn]
    /\ IF c.exists
       THEN /\ pc' = [pcb EXCEPT ![t] = "d_summary"]
            /\ out' = [out EXCEPT ![t] = NoFrame]
            /\ server_seq' = server_seq
            /\ client' = [c EXCEPT !.future = t]
            /\ fut' = [fut EXCEPT ![t] = "pending"]
            /\ toProvider' = IF CanSend(c)
                             THEN Append(toProvider, "summary_request")
                             ELSE toProvider
       ELSE /\ pc' = [pcb EXCEPT ![t] = "d_send"]
            /\ out' = [out EXCEPT ![t] =
                          Frame("disconnect", server_seq + 1, cseq, rsn, FALSE, "")]
            /\ server_seq' = server_seq + 1
            /\ client' = c
            /\ fut' = fut
            /\ toProvider' = toProvider

\* ------------------------------------------------- the carrier read loop
\* `msg = await websocket.recv()` returns a message: the loop is waiting,
\* the socket is open and the carrier has something to say.
CanRecv ==
    /\ pc["main"] = "recv"
    /\ wsOpen

\* The carrier sends a bounded number of pings and unhandled messages.
CanRecvRoutine == CanRecv /\ nCarrier < MaxCarrierMsgs

\* handle_message, first lines: client_seq takes the message's seq.
RecvSeq == carrierSeq + 1

\* handle_message drops every non-error message while in_backoff is set.
Skipped == in_backoff

\* `ping`: handle_ping builds the pong and waits for a message token.
RecvPing ==
    /\ CanRecvRoutine
    /\ nCarrier' = nCarrier + 1
    /\ carrierSeq' = RecvSeq
    /\ client_seq' = RecvSeq
    /\ IF Skipped
       THEN /\ UNCHANGED <<server_seq, pc, out>>
       ELSE /\ server_seq' = server_seq + 1
            /\ out' = [out EXCEPT !["main"] =
                          Frame("pong", server_seq + 1, RecvSeq, "", FALSE, "")]
            /\ pc' = [pc EXCEPT !["main"] = "send_pong"]
    /\ UNCHANGED <<running, in_backoff, retry_count, audio_buffer, client,
                   reason, fut, pacer, pendingAudio, msgTokens, binTokens,
                   wsOpen, nProvider, session_id, msg, wire, toProvider>>
    /\ UNCHANGED auxVars

\* handle_ping, after the token wait: the pong is sent or dropped.
SendPong ==
    /\ pc["main"] = "send_pong"
    /\ msgTokens' = AfterAcquire(msgTokens)
    /\ wire' = WireAfterJson(out["main"])
    /\ MainContinue(running /\ ~SendHitClosed, client, pacer, pc)
    /\ UNCHANGED <<client_seq, server_seq, in_backoff, retry_count,
                   audio_buffer, pendingAudio, binTokens, wsOpen, nCarrier,
                   nProvider, carrierSeq, session_id, msg, toProvider>>
    /\ UNCHANGED auxVars

\* An unhandled message that uses up a server sequence number.
RecvIgnored_TakesSeq ==
    /\ CanRecvRoutine
    /\ nCarrier' = nCarrier + 1
    /\ carrierSeq' = RecvSeq
    /\ client_seq' = RecvSeq
    /\ server_seq' = server_seq + 1
    /\ MainContinue(running, client, pacer, pc)
    /\ UNCHANGED <<in_backoff, retry_count, audio_buffer,
                   pendingAudio, msgTokens, binTokens, wsOpen, nProvider,
                   session_id, msg, wire, toProvider>>
    /\ UNCHANGED auxVars

\* `update`, `resume`, `pause` and unknown types, and an `error` whose code
\* is not 429 (handle_error returns False and no branch matches "error").
RecvIgnored ==
    /\ CanRecvRoutine
    /\ nCarrier' = nCarrier + 1
    /\ carrierSeq' = RecvSeq
    /\ client_seq' = RecvSeq
    /\ MainContinue(running, client, pacer, pc)
    /\ UNCHANGED <<server_seq, in_backoff, retry_count, audio_buffer,
                   pendingAudio, msgTokens, binTokens, wsOpen, nProvider,
                   session_id, msg, wire, toProvider>>
    /\ UNCHANGED auxVars

\* A binary frame: handle_audio_frame returns at once without a running
\* client; otherwise send_audio hands an input_audio_buffer.append to
\* _safe_send, which sends it when the provider socket is usable.
RecvBinary ==
    /\ CanRecvRoutine
    /\ nCarrier' = nCarrier + 1
    /\ toProvider' = IF CanSend(client)
                     THEN Append(toProvider, "audio_append")
                     ELSE toProvider
    /\ MainContinue(running, client, pacer, pc)
    /\ UNCHANGED <<client_seq, server_seq, in_backoff, retry_count,
                   audio_buffer, pendingAudio, msgTokens, binTokens, wsOpen,
                   nProvider, carrierSeq, session_id, msg, wire>>
    /\ UNCHANGED auxVars

\* The selection loop taking the last supported entry instead of the first.
RECURSIVE Chosen_LastMatch(_)
Chosen_LastMatch(offered_media) ==
    IF offered_media = <<>> THEN <<>>
    ELSE IF Chosen_LastMatch(Tail(offered_media)) # <<>>
         THEN Chosen_LastMatch(Tail(offered_media))
         ELSE IF Head(offered_media).format = "PCMU" /\ Head(offered_media).rate = 8000
              THEN <<Head(offered_media)>>
              ELSE <<>>

\* handle_open, the selection loop: the first offered entry with format
\* PCMU and rate 8000, as a list of one entry; the empty list if there is
\* none (chosen = None).
RECURSIVE Chosen(_)
Chosen(offered_media) ==
    IF offered_media = <<>> THEN <<>>
    ELSE IF Head(offered_media).format = "PCMU" /\ Head(offered_media).rate = 8000
         THEN <<Head(offered_media)>>
         ELSE Chosen(Tail(offered_media))

\* The media list of an `opened` frame as the frame's parameter.
MediaParam(media) ==
    IF media = <<>> THEN "empty"
    ELSE media[1].format \o "/" \o ToString(media[1].rate) \o "/" \o media[1].channels

\* handle_open without the probe branch: a probe is answered like any
\* other offer.
RecvOpen_NoProbeBranch(is_probe, offered_media) ==
    /\ CanRecv
    /\ session_id = "uuid"
    /\ nCarrier' = nCarrier
    /\ carrierSeq' = RecvSeq
    /\ client_seq' = RecvSeq
    /\ session_id' = IF is_probe THEN "p1" ELSE "s1"
    /\ msg' = OpenMsg(is_probe, offered_media)
    /\ server_seq' = server_seq + 1
    /\ out' = [out EXCEPT !["main"] =
                  IF Chosen(offered_media) = <<>>
                  THEN Frame("disconnect", server_seq + 1, RecvSeq, "error", FALSE, "")
                  ELSE Frame("opened", server_seq + 1, RecvSeq,
                             MediaParam(Chosen(offered_media)), FALSE, "")]
    /\ pc' = [pc EXCEPT !["main"] =
                 IF Chosen(offered_media) = <<>> THEN "send_nomedia" ELSE "send_opened"]
    /\ UNCHANGED <<running, in_backoff, retry_count, audio_buffer, client,
                   reason, fut, pacer, pendingAudio, msgTokens, binTokens,
                   wsOpen, nProvider, wire, toProvider>>
    /\ UNCHANGED auxVars

\* `open`: handle_open up to its first send.  The carrier names a probe
\* session p1 and a conversation s1.
RecvOpen(is_probe, offered_media) ==
    /\ CanRecv
    /\ session_id = "uuid"
    /\ nCarrier' = nCarrier
    /\ carrierSeq' = RecvSeq
    /\ client_seq' = RecvSeq
    /\ IF Skipped
       THEN /\ UNCHANGED <<server_seq, pc, out, session_id, msg>>
       ELSE /\ session_id' = IF is_probe THEN "p1" ELSE "s1"
            /\ msg' = OpenMsg(is_probe, offered_media)
            /\ server_seq' = server_seq + 1
            /\ out' = [out EXCEPT !["main"] =
                          IF is_probe
                          THEN Frame("opened", server_seq + 1, RecvSeq,
                                     MediaParam(<<>>), FALSE, "")
                          ELSE IF Chosen(offered_media) = <<>>
                          THEN Frame("disconnect", server_seq + 1, RecvSeq,
                                     "error", FALSE, "")
                          ELSE Frame("opened", server_seq + 1, RecvSeq,
                                     MediaParam(Chosen(offered_media)), FALSE, "")]
            /\ pc' = [pc EXCEPT !["main"] =
                         IF is_probe THEN "send_probe"
                         ELSE IF Chosen(offered_media) = <<>> THEN "send_nomedia"
                         ELSE "send_opened"]
    /\ UNCHANGED <<running, in_backoff, retry_count, audio_buffer, client,
                   reason, fut, pacer, pendingAudio, msgTokens, binTokens,
                   wsOpen, nProvider, wire, toProvider>>
    /\ UNCHANGED auxVars

\* handle_open, probe: `opened` with an empty media list, then return.
SendProbeOpened ==
    /\ pc["main"] = "send_probe"
    /\ msg' = NoMsg
    /\ msgTokens' = AfterAcquire(msgTokens)
    /\ wire' = WireAfterJson(out["main"])
    /\ MainContinue(running /\ ~SendHitClosed, client, pacer, pc)
    /\ UNCHANGED <<client_seq, server_seq, in_backoff, retry_count,
                   audio_buffer, pendingAudio, binTokens, wsOpen, nCarrier,
                   nProvider, carrierSeq, session_id, toProvider>>
    /\ UNCHANGED auxVars

\* handle_open, no supported format: `disconnect` built in place, then
\* running is cleared.
SendNoMedia ==
    /\ pc["main"] = "send_nomedia"
    /\ msg' = NoMsg
    /\ msgTokens' = AfterAcquire(msgTokens)
    /\ wire' = WireAfterJson(out["main"])
    /\ MainContinue(FALSE, client, pacer, pc)
    /\ UNCHANGED <<client_seq, server_seq, in_backoff, retry_count,
                   audio_buffer, pendingAudio, binTokens, wsOpen, nCarrier,
                   nProvider, carrierSeq, session_id, toProvider>>
    /\ UNCHANGED auxVars

\* handle_open, supported format: `opened` is sent, the client is created
\* and connect() is awaited.
SendOpened ==
    /\ pc["main"] = "send_opened"
    /\ msg' = NoMsg
    /\ msgTokens' = AfterAcquire(msgTokens)
    /\ wire' = WireAfterJson(out["main"])
    /\ running' = (running /\ ~SendHitClosed)
    /\ client' = NewClient
    /\ out' = [out EXCEPT !["main"] = NoFrame]
    /\ pc' = [pc EXCEPT !["main"] = "connect"]
    /\ UNCHANGED <<client_seq, server_seq, in_backoff, retry_count,
                   audio_buffer, reason, fut, pacer, pendingAudio, binTokens,
                   wsOpen, nCarrier, nProvider, carrierSeq, session_id,
                   toProvider>>
    /\ UNCHANGED auxVars

\* connect() returns: the provider socket is open and the client runs;
\* start_audio_processing creates the pacer task, start_receiving the
\* reader task.
ConnectOk ==
    /\ pc["main"] = "connect"
    /\ MainContinue(running,
                    [client EXCEPT !.running = TRUE, !.ws = "open"],
                    "sleep",
                    [pc EXCEPT !["reader"] = "recv"])
    /\ UNCHANGED <<client_seq, server_seq, in_backoff, retry_count,
                   audio_buffer, pendingAudio, msgTokens, binTokens, wsOpen,
                   nCarrier, nProvider, carrierSeq, session_id, msg, wire,
                   toProvider>>
    /\ UNCHANGED auxVars

\* connect() raises (handshake error, timeout, provider 429 retries
\* exhausted; the client has been closed): handle_open calls
\* disconnect_session(reason="error").
ConnectFail ==
    /\ pc["main"] = "connect"
    /\ StartDisconnect("main", "error", CloseClient(client), client_seq, pc)
    /\ UNCHANGED <<client_seq, running, in_backoff, retry_count, audio_buffer,
                   pacer, pendingAudio, msgTokens, binTokens, wsOpen,
                   nCarrier, nProvider, carrierSeq, session_id, msg, wire>>
    /\ UNCHANGED auxVars

\* `error` with code 429: handle_error.  Past the maximum the session is
\* disconnected with reason "error"; otherwise both running flags are
\* cleared and the handler sleeps for the resolved delay.
RecvError429 ==
    /\ CanRecv
    /\ nCarrier' = nCarrier
    /\ carrierSeq' = RecvSeq
    /\ client_seq' = RecvSeq
    /\ in_backoff' = TRUE
    /\ retry_count' = retry_count + 1
    /\ IF retry_count + 1 > RATE_LIMIT_MAX_RETRIES
       THEN /\ StartDisconnect("main", "error", client, RecvSeq, pc)
            /\ running' = running
       ELSE /\ client' = IF client.exists
                         THEN [client EXCEPT !.running = FALSE] ELSE client
            /\ running' = FALSE
            /\ pc' = [pc EXCEPT !["main"] = "backoff"]
            /\ UNCHANGED <<server_seq, out, reason, fut, toProvider>>
    /\ UNCHANGED <<audio_buffer, pacer, pendingAudio, msgTokens, binTokens,
                   wsOpen, nProvider, session_id, msg, wire>>
    /\ UNCHANGED auxVars

\* handle_error after `await asyncio.sleep(used_delay)`: both running
\* flags are set, in_backoff is cleared, and handle_message returns.
BackoffWake ==
    /\ pc["main"] = "backoff"
    /\ in_backoff' = FALSE
    /\ MainContinue(TRUE,
                    IF client.exists
                    THEN [client EXCEPT !.running = TRUE] ELSE client,
                    pacer, pc)
    /\ UNCHANGED <<client_seq, server_seq, retry_count, audio_buffer,
                   pendingAudio, msgTokens, binTokens, wsOpen, nCarrier,
                   nProvider, carrierSeq, session_id, msg, wire, toProvider>>
    /\ UNCHANGED auxVars

\* A text message that is not JSON: the read loop calls
\* disconnect_session("error", "JSON parse error").
RecvBadJson ==
    /\ CanRecv
    /\ nCarrier' = nCarrier
    /\ StartDisconnect("main", "error", client, client_seq, pc)
    /\ UNCHANGED <<client_seq, running, in_backoff, retry_count, audio_buffer,
                   pacer, pendingAudio, msgTokens, binTokens, wsOpen,
                   nProvider, carrierSeq, session_id, msg, wire>>
    /\ UNCHANGED auxVars

\* The carrier closes its WebSocket.
CarrierCloses ==
    /\ wsOpen
    /\ wsOpen' = FALSE
    /\ UNCHANGED <<client_seq, server_seq, running, in_backoff, retry_count,
                   audio_buffer, client, pc, out, reason, fut, pacer,
                   pendingAudio, msgTokens, binTokens, nCarrier, nProvider,
                   carrierSeq, session_id, msg, wire, toProvider>>
    /\ UNCHANGED auxVars

\* recv() raises ConnectionClosed: disconnect_session("closed"), then break.
RecvConnectionClosed ==
    /\ pc["main"] = "recv"
    /\ ~wsOpen
    /\ StartDisconnect("main", "closed", client, client_seq, pc)
    /\ UNCHANGED <<client_seq, running, in_backoff, retry_count, audio_buffer,
                   pacer, pendingAudio, msgTokens, binTokens, wsOpen,
                   nCarrier, nProvider, carrierSeq, session_id, msg, wire>>
    /\ UNCHANGED auxVars

\* ------------------------------------------------- disconnect_session
\* generate_session_summary returns in task t: the future was resolved by
\* the reader (res = "obj") or await_summary timed out (res = "error").
\* Then the token metrics are read from the client's last_response: it is
\* None until a response.done has been read, and `.get` on it raises; the
\* except clause logs it and no frame is built.
DisconnectSummaryDone(t, res) ==
    /\ pc[t] = "d_summary"
    /\ \/ res = "obj" /\ fut[t] = "resolved"
       \/ res = "error" /\ fut[t] = "pending"
    /\ IF client.last_response = "None"
       THEN /\ Teardown(t)
            /\ UNCHANGED server_seq
       ELSE /\ server_seq' = server_seq + 1
            /\ out' = [out EXCEPT ![t] =
                          Frame("disconnect", server_seq + 1, client_seq,
                                reason[t], TRUE, res)]
            /\ pc' = [pc EXCEPT ![t] = "d_send"]
            /\ fut' = [fut EXCEPT ![t] = "none"]
            /\ client' = [client EXCEPT !.future = "none"]
            /\ UNCHANGED <<running, reason, pacer>>
    /\ UNCHANGED <<client_seq, in_backoff, retry_count, audio_buffer,
                   pendingAudio, msgTokens, binTokens, wsOpen, nCarrier,
                   nProvider, carrierSeq, session_id, msg, wire, toProvider>>
    /\ UNCHANGED auxVars

\* disconnect_session after the token wait of _send_json: the frame is
\* sent or dropped, then ws.wait_closed() is awaited.
DisconnectSend(t) ==
    /\ pc[t] = "d_send"
    /\ msgTokens' = AfterAcquire(msgTokens)
    /\ wire' = WireAfterJson(out[t])
    /\ running' = (running /\ ~SendHitClosed)
    /\ out' = [out EXCEPT ![t] = NoFrame]
    /\ pc' = [pc EXCEPT ![t] = "d_wait"]
    /\ UNCHANGED <<client_seq, server_seq, in_backoff, retry_count,
                   audio_buffer, client, reason, fut, pacer, pendingAudio,
                   binTokens, wsOpen, nCarrier, nProvider, carrierSeq,
                   session_id, msg, toProvider>>
    /\ UNCHANGED auxVars

\* disconnect_session, finally block: the carrier closed the socket or the
\* 5 s wait timed out.
DisconnectFinish(t) ==
    /\ pc[t] = "d_wait"
    /\ Teardown(t)
    /\ UNCHANGED <<client_seq, server_seq, in_backoff, retry_count,
                   audio_buffer, pendingAudio, msgTokens, binTokens, wsOpen,
                   nCarrier, nProvider, carrierSeq, session_id, msg, wire,
                   toProvider>>
    /\ UNCHANGED auxVars

\* ------------------------------------------------------- handle_close
\* `close`: generate_session_summary, then the `closed` frame.
RecvClose ==
    /\ CanRecv
    /\ nCarrier' = nCarrier
    /\ carrierSeq' = RecvSeq
    /\ client_seq' = RecvSeq
    /\ IF Skipped
       THEN UNCHANGED <<server_seq, pc, out, client, fut, toProvider>>
       ELSE IF client.exists
       THEN /\ pc' = [pc EXCEPT !["main"] = "c_summary"]
            /\ client' = [client EXCEPT !.future = "main"]
            /\ fut' = [fut EXCEPT !["main"] = "pending"]
            /\ toProvider' = IF CanSend(client)
                             THEN Append(toProvider, "summary_request")
                             ELSE toProvider
            /\ UNCHANGED <<server_seq, out>>
       ELSE /\ pc' = [pc EXCEPT !["main"] = "send_closed"]
            /\ server_seq' = server_seq + 1
            /\ out' = [out EXCEPT !["main"] =
                          Frame("closed", server_seq + 1, RecvSeq, "", FALSE, "")]
            /\ UNCHANGED <<client, fut, toProvider>>
    /\ UNCHANGED <<running, in_backoff, retry_count, audio_buffer, reason,
                   pacer, pendingAudio, msgTokens, binTokens, wsOpen,
                   nProvider, session_id, msg, wire>>
    /\ UNCHANGED auxVars

\* handle_close once generate_session_summary returns: build `closed`.
\* res is what it returns: the parsed object ("obj") when the future was
\* resolved with parsable text; an {"error": ...} dict ("error") when the
\* wait timed out or the text does not parse; None ("") when the resolved
\* payload holds no text.
CloseSummaryDone(res) ==
    /\ pc["main"] = "c_summary"
    /\ \/ res = "obj" /\ fut["main"] = "resolved"
       \/ res = "error" /\ fut["main"] \in {"pending", "resolved"}
       \/ res = "" /\ fut["main"] = "resolved"
    /\ server_seq' = server_seq + 1
    /\ out' = [out EXCEPT !["main"] =
                  Frame("closed", server_seq + 1, client_seq, "", FALSE, res)]
    /\ pc' = [pc EXCEPT !["main"] = "send_closed"]
    /\ fut' = [fut EXCEPT !["main"] = "none"]
    /\ client' = [client EXCEPT !.future = "none"]
    /\ UNCHANGED <<client_seq, running, in_backoff, retry_count, audio_buffer,
                   reason, pacer, pendingAudio, msgTokens, binTokens, wsOpen,
                   nCarrier, nProvider, carrierSeq, session_id, msg, wire,
                   toProvider>>
    /\ UNCHANGED auxVars

\* handle_close after the token wait: `closed` is sent or dropped, the
\* pacer is stopped, the client closed and running cleared.
SendClosedFrame ==
    /\ pc["main"] = "send_closed"
    /\ msgTokens' = AfterAcquire(msgTokens)
    /\ wire' = WireAfterJson(out["main"])
    /\ Teardown("main")
    /\ UNCHANGED <<client_seq, server_seq, in_backoff, retry_count,
                   audio_buffer, pendingAudio, binTokens, wsOpen, nCarrier,
                   nProvider, carrierSeq, session_id, msg, toProvider>>
    /\ UNCHANGED auxVars

\* --------------------------------------------- the provider reader task
\* `raw = await self.ws.recv()` returns an event in _read_loop.
CanRead ==
    /\ pc["reader"] = "recv"
    /\ client.exists
    /\ client.ws = "open"
    /\ nProvider < MaxProviderEvents

\* `while self.running` at the top of _read_loop, after an event.
ReaderLoop(c) == IF c.running THEN "recv" ELSE "done"

\* response.audio.delta: on_audio_callback creates a handle_openai_audio
\* task holding the decoded frame.
ProvAudioDelta ==
    /\ CanRead
    /\ nProvider' = nProvider + 1
    /\ pendingAudio' = Append(pendingAudio, nProvider + 1)
    /\ pc' = [pc EXCEPT !["reader"] = ReaderLoop(client)]
    /\ UNCHANGED <<client_seq, server_seq, running, in_backoff, retry_count,
                   audio_buffer, client, out, reason, fut, pacer, msgTokens,
                   binTokens, wsOpen, nCarrier, carrierSeq, session_id, msg, wire,
                   toProvider>>
    /\ UNCHANGED auxVars

\* input_audio_buffer.speech_started: handle_speech_started builds the
\* barge-in `event` frame and waits for a message token.
ProvSpeechStarted ==
    /\ CanRead
    /\ nProvider' = nProvider + 1
    /\ server_seq' = server_seq + 1
    /\ out' = [out EXCEPT !["reader"] =
                  Frame("event", server_seq + 1, client_seq, "barge_in", FALSE, "")]
    /\ pc' = [pc EXCEPT !["reader"] = "send_event"]
    /\ UNCHANGED <<client_seq, running, in_backoff, retry_count, audio_buffer,
                   client, reason, fut, pacer, pendingAudio, msgTokens,
                   binTokens, wsOpen, nCarrier, carrierSeq, session_id, msg, wire,
                   toProvider>>
    /\ UNCHANGED auxVars

\* handle_speech_started after the token wait: the event is sent or
\* dropped and _read_loop goes on.
SendEvent ==
    /\ pc["reader"] = "send_event"
    /\ msgTokens' = AfterAcquire(msgTokens)
    /\ wire' = WireAfterJson(out["reader"])
    /\ running' = (running /\ ~SendHitClosed)
    /\ out' = [out EXCEPT !["reader"] = NoFrame]
    /\ pc' = [pc EXCEPT !["reader"] = ReaderLoop(client)]
    /\ UNCHANGED <<client_seq, server_seq, in_backoff, retry_count,
                   audio_buffer, client, reason, fut, pacer, pendingAudio,
                   binTokens, wsOpen, nCarrier, nProvider, carrierSeq,
                   session_id, msg, toProvider>>
    /\ UNCHANGED auxVars

\* _handle_function_call: the action tag recorded in the disconnect
\* context for a call-control tool.
ToolAction(name) ==
    CASE name \in {"end_call", "end_conversation_successfully"} ->
             "end_conversation_successfully"
      [] name \in {"handoff_to_human", "end_conversation_with_escalation"} ->
             "end_conversation_with_escalation"
      [] OTHER -> "None"

\* _handle_function_call: the reason recorded with the action.
ToolReason(action) ==
    IF action = "end_conversation_successfully" THEN "completed" ELSE "transfer"

\* _read_loop, response.done: the callback chosen for a consumed context.
CallbackFor(action) ==
    CASE action = "end_call" -> "on_end_call_request"
      [] action = "handoff_to_human" -> "on_handoff_request"
      [] OTHER -> "none"

\* _on_end_call_request / _on_handoff_request: the reason handed to
\* disconnect_session.
CallbackReason(cb, action) ==
    IF cb = "on_end_call_request" THEN ToolReason(action) ELSE "transfer"

\* What the provider may say in a response.done: a plain response, a
\* response whose output holds a call-control function call, the farewell
\* response (only once the farewell was requested), the ending analysis
\* (only once it was requested).
Count(log, e) == Cardinality({i \in 1..Len(log) : log[i] = e})
DoneKinds ==
    {"plain", "end_conversation_successfully", "end_conversation_with_escalation"}
    \cup (IF Count(toProvider, "farewell_instr") > Count(toProvider, "farewell_done")
          THEN {"final_farewell"} ELSE {})
    \cup (IF Count(toProvider, "summary_request") > Count(toProvider, "summary_done")
          THEN {"ending_analysis"} ELSE {})

\* response.done in _read_loop: last_response is stored, a pending summary
\* future is resolved by an ending analysis, each function call of the
\* output is handled (_handle_function_call: context and flag set, then the
\* function_call_output and the farewell response.create are sent), and
\* then a pending disconnect context is consumed.
ProvResponseDone(kind) ==
    /\ CanRead
    /\ kind \in DoneKinds
    /\ nProvider' = nProvider + 1
    /\ LET isTool == ToolAction(kind) # "None"
           ctx1 == IF isTool THEN ToolAction(kind) ELSE client.ctx
           flag1 == isTool \/ client.await_disc
           log0 == CASE kind = "final_farewell" -> Append(toProvider, "farewell_done")
                     [] kind = "ending_analysis" -> Append(toProvider, "summary_done")
                     [] OTHER -> toProvider
           log1 == IF ~isTool THEN log0
                   ELSE IF CanSend(client)
                        THEN log0 \o <<kind, "tool_output", "farewell_instr">>
                        ELSE Append(log0, kind)
           consume == flag1 /\ ctx1 # "None"
           log2 == IF consume THEN Append(log1, "ctx_consumed") ELSE log1
           cb == IF consume THEN CallbackFor(ctx1) ELSE "none"
           resolve == kind = "ending_analysis" /\ client.future # "none"
                      /\ fut[client.future] = "pending"
           fut1 == IF resolve THEN [fut EXCEPT ![client.future] = "resolved"] ELSE fut
           c1 == [client EXCEPT !.last_response = "dict",
                                !.await_disc = IF consume THEN FALSE ELSE flag1,
                                !.ctx = IF consume THEN "None" ELSE ctx1]
       IN  IF cb = "none"
           THEN /\ client' = c1
                /\ fut' = fut1
                /\ toProvider' = log2
                /\ pc' = [pc EXCEPT !["reader"] = ReaderLoop(c1)]
                /\ UNCHANGED <<server_seq, out, reason>>
           ELSE /\ toProvider' =
                       IF CanSend(c1)
                       THEN log2 \o <<"disconnect_cb", "summary_request">>
                       ELSE Append(log2, "disconnect_cb")
                /\ reason' = [reason EXCEPT !["reader"] = CallbackReason(cb, ctx1)]
                /\ pc' = [pc EXCEPT !["reader"] = "d_summary"]
                /\ client' = [c1 EXCEPT !.future = "reader"]
                /\ fut' = [fut1 EXCEPT !["reader"] = "pending"]
                /\ UNCHANGED <<server_seq, out>>
    /\ UNCHANGED <<client_seq, running, in_backoff, retry_count, audio_buffer,
                   pacer, pendingAudio, msgTokens, binTokens, wsOpen,
                   nCarrier, carrierSeq, session_id, msg, wire>>
    /\ UNCHANGED auxVars

\* The provider socket closes: recv() raises ConnectionClosed, _read_loop
\* logs it, clears the client's running flag and ends.
ProvSocketClosed ==
    /\ pc["reader"] = "recv"
    /\ client.exists
    /\ client.ws = "open"
    /\ client' = [client EXCEPT !.running = FALSE, !.ws = "closed"]
    /\ pc' = [pc EXCEPT !["reader"] = "done"]
    /\ UNCHANGED <<client_seq, server_seq, running, in_backoff, retry_count,
                   audio_buffer, out, reason, fut, pacer, pendingAudio,
                   msgTokens, binTokens, wsOpen, nCarrier, nProvider,
                   carrierSeq, session_id, msg, wire, toProvider>>
    /\ UNCHANGED auxVars

\* ------------------------------------------------ downlink audio tasks
\* The tasks created by on_audio_callback run in the reverse of the order
\* in which they were created.
AudioTask_NewestFirst ==
    /\ pendingAudio # <<>>
    /\ pendingAudio' = SubSeq(pendingAudio, 1, Len(pendingAudio) - 1)
    /\ audio_buffer' = IF running /\ Len(audio_buffer) < MaxBuffer
                       THEN Append(audio_buffer, pendingAudio[Len(pendingAudio)])
                       ELSE audio_buffer
    /\ UNCHANGED <<client_seq, server_seq, running, in_backoff, retry_count,
                   client, pc, out, reason, fut, pacer, msgTokens, binTokens,
                   wsOpen, nCarrier, nProvider, carrierSeq, session_id, msg, wire,
                   toProvider>>
    /\ UNCHANGED auxVars

\* handle_openai_audio, run by the task on_audio_callback created: the
\* frame is dropped unless the session is running; send_binary_to_genesys
\* buffers it unless the buffer is full.
AudioTask ==
    /\ pendingAudio # <<>>
    /\ pendingAudio' = Tail(pendingAudio)
    /\ audio_buffer' = IF running /\ Len(audio_buffer) < MaxBuffer
                       THEN Append(audio_buffer, Head(pendingAudio))
                       ELSE audio_buffer
    /\ UNCHANGED <<client_seq, server_seq, running, in_backoff, retry_count,
                   client, pc, out, reason, fut, pacer, msgTokens, binTokens,
                   wsOpen, nCarrier, nProvider, carrierSeq, session_id, msg, wire,
                   toProvider>>
    /\ UNCHANGED auxVars

\* _process_audio_buffer wakes from its sleep: the loop ends when running
\* is false; with a frame buffered and the send interval elapsed it asks
\* the binary limiter for a token.
PacerTick ==
    /\ pacer = "sleep"
    /\ IF ~running
       THEN pacer' = "done"
       ELSE /\ audio_buffer # <<>>
            /\ pacer' = "acquire"
    /\ UNCHANGED <<client_seq, server_seq, running, in_backoff, retry_count,
                   audio_buffer, client, pc, out, reason, fut, pendingAudio,
                   msgTokens, binTokens, wsOpen, nCarrier, nProvider,
                   carrierSeq, session_id, msg, wire, toProvider>>
    /\ UNCHANGED auxVars

\* The pacer sending the head of the buffer and leaving it there.
PacerSend_NoPop ==
    /\ pacer = "acquire"
    /\ binTokens' = AfterAcquire(binTokens)
    /\ IF Granted(binTokens)
       THEN /\ audio_buffer' = audio_buffer
            /\ IF wsOpen
               THEN /\ wire' = [wire EXCEPT !.audio = Head(audio_buffer)]
                    /\ pacer' = "sleep"
                    /\ running' = running
               ELSE /\ wire' = wire
                    /\ pacer' = "done"
                    /\ running' = FALSE
       ELSE /\ pacer' = "sleep"
            /\ UNCHANGED <<audio_buffer, wire, running>>
    /\ UNCHANGED <<client_seq, server_seq, in_backoff, retry_count, client,
                   pc, out, reason, fut, pendingAudio, msgTokens, wsOpen,
                   nCarrier, nProvider, carrierSeq, session_id, msg, toProvider>>
    /\ UNCHANGED auxVars

\* _process_audio_buffer after the token wait: with a token the head of the
\* buffer is popped and sent (ConnectionClosed clears running and ends the
\* task); without one the task sleeps again.
PacerSend ==
    /\ pacer = "acquire"
    /\ binTokens' = AfterAcquire(binTokens)
    /\ IF Granted(binTokens)
       THEN /\ audio_buffer' = Tail(audio_buffer)
            /\ IF wsOpen
               THEN /\ wire' = [wire EXCEPT !.audio = Head(audio_buffer)]
                    /\ pacer' = "sleep"
                    /\ running' = running
               ELSE /\ wire' = wire
                    /\ pacer' = "done"
                    /\ running' = FALSE
       ELSE /\ pacer' = "sleep"
            /\ UNCHANGED <<audio_buffer, wire, running>>
    /\ UNCHANGED <<client_seq, server_seq, in_backoff, retry_count, client,
                   pc, out, reason, fut, pendingAudio, msgTokens, wsOpen,
                   nCarrier, nProvider, carrierSeq, session_id, msg, toProvider>>
    /\ UNCHANGED auxVars

\* Wall time passes: both token buckets refill (capped at capacity).
Refill ==
    /\ msgTokens < MsgBurst \/ binTokens < BinBurst
    /\ msgTokens' = IF msgTokens < MsgBurst THEN msgTokens + 1 ELSE msgTokens
    /\ binTokens' = IF binTokens < BinBurst THEN binTokens + 1 ELSE binTokens
    /\ UNCHANGED <<client_seq, server_seq, running, in_backoff, retry_count,
                   audio_buffer, client, pc, out, reason, fut, pacer,
                   pendingAudio, wsOpen, nCarrier, nProvider, carrierSeq,
                   session_id, msg, wire, toProvider>>
    /\ UNCHANGED auxVars

\* ------------------------------------------------------- specification
Next ==
    \/ RecvPing
    \/ SendPong
    \/ RecvIgnored
    \/ RecvBinary
    \/ \E is_probe \in BOOLEAN, offered_media \in Offers :
           RecvOpen(is_probe, offered_media)
    \/ SendProbeOpened
    \/ SendNoMedia
    \/ SendOpened
    \/ ConnectOk
    \/ ConnectFail
    \/ RecvError429
    \/ BackoffWake
    \/ RecvBadJson
    \/ CarrierCloses
    \/ RecvConnectionClosed
    \/ \E t \in Tasks, res \in {"obj", "error"} : DisconnectSummaryDone(t, res)
    \/ \E t \in Tasks : DisconnectSend(t)
    \/ \E t \in Tasks : DisconnectFinish(t)
    \/ RecvClose
    \/ \E res \in {"obj", "error", ""} : CloseSummaryDone(res)
    \/ SendClosedFrame
    \/ ProvAudioDelta
    \/ ProvSpeechStarted
    \/ SendEvent
    \/ \E kind \in {"plain", "end_conversation_successfully",
                    "end_conversation_with_escalation", "final_farewell",
                    "ending_analysis"} : ProvResponseDone(kind)
    \/ ProvSocketClosed
    \/ AudioTask
    \/ PacerTick
    \/ PacerSend
    \/ Refill

Spec == Init /\ [][Next]_vars

\* ------------------------------------------------ the provider handshake
\* Everything but the handshake and the carrier-429 record.
sessionVars ==
    <<client_seq, server_seq, running, in_backoff, retry_count, audio_buffer,
      client, pc, out, reason, fut, pacer, pendingAudio, msgTokens,
      binTokens, wsOpen, nCarrier, nProvider, carrierSeq, session_id, msg,
      wire, toProvider>>

\* Everything but the one variable a part modelled on its own works on.
exceptHs == <<sessionVars, err, td, req, prompt, pt, ck, ho, dc>>
exceptErr == <<sessionVars, hs, td, req, prompt, pt, ck, ho, dc>>
exceptTd == <<sessionVars, hs, err, req, prompt, pt, ck, ho, dc>>
exceptReq == <<sessionVars, hs, err, td, prompt, pt, ck, ho, dc>>
exceptPrompt == <<sessionVars, hs, err, td, req, pt, ck, ho, dc>>
exceptPt == <<sessionVars, hs, err, td, req, prompt, ck, ho, dc>>
exceptCk == <<sessionVars, hs, err, td, req, prompt, pt, ho, dc>>
exceptHo == <<sessionVars, hs, err, td, req, prompt, pt, ck, dc>>
exceptDc == <<sessionVars, hs, err, td, req, prompt, pt, ck, ho>>

\* Time passing, as far as the comparison with GENESYS_RATE_WINDOW sees it.
Elapse(t, d) ==
    IF t + d > GENESYS_RATE_WINDOW THEN GENESYS_RATE_WINDOW + 1 ELSE t + d

\* connect() is called and enters its `while True` loop.
StartConnect ==
    /\ hs.pc = "idle"
    /\ hs' = [hs EXCEPT !.pc = "connecting"]
    /\ UNCHANGED exceptHs

\* The provider answers 429 after connect_time seconds, at one of the three
\* places connect() looks for it: the first event ("created"), the events
\* after session.update ("update"), the handshake exception ("exception").
\* handle_rate_limit gives up when retry_count has reached the maximum;
\* otherwise it counts the retry and sleeps for the Retry-After header's
\* value, or GENESYS_RATE_WINDOW without one.
Connect429(site, header, connect_time) ==
    /\ hs.pc = "connecting"
    /\ hs' = IF hs.retry_count >= RATE_LIMIT_MAX_RETRIES
             THEN [hs EXCEPT !.pc = "failed",
                             !.time_since_last = Elapse(@, connect_time)]
             ELSE [hs EXCEPT !.pc = "sleep",
                             !.retry_count = @ + 1,
                             !.time_since_last = Elapse(@, connect_time),
                             !.delay = IF header = <<>> THEN GENESYS_RATE_WINDOW
                                       ELSE header[1],
                             !.site = site]
    /\ UNCHANGED exceptHs

\* retry_count after the sleep of handle_rate_limit: reset when more than
\* GENESYS_RATE_WINDOW has passed since last_retry_time.
AfterSleep(h) ==
    IF Elapse(h.time_since_last, h.delay) > GENESYS_RATE_WINDOW
    THEN 0 ELSE h.retry_count

\* connect() after handle_rate_limit returned True: the loop goes round
\* again, except that after session.update it does so only while
\* retry_count is below the maximum.
Reconnects(h) == h.site # "update" \/ AfterSleep(h) < RATE_LIMIT_MAX_RETRIES

\* The sleep of handle_rate_limit ends: retry_count is reset or kept,
\* last_retry_time is set to now, and connect() closes the socket and
\* reconnects or raises.
BackoffSleepDone ==
    /\ hs.pc = "sleep"
    /\ Reconnects(hs) => hs.attempts < MaxAttempts
    /\ hs' = [hs EXCEPT !.retry_count = AfterSleep(hs),
                        !.time_since_last = 0,
                        !.delay = 0,
                        !.site = "none",
                        !.pc = IF Reconnects(hs) THEN "connecting" ELSE "failed",
                        !.attempts = IF Reconnects(hs) THEN @ + 1 ELSE @]
    /\ UNCHANGED exceptHs

\* session.updated arrives: retry_count is cleared and connect() returns.
HandshakeOk ==
    /\ hs.pc = "connecting"
    /\ hs' = [hs EXCEPT !.pc = "connected", !.retry_count = 0]
    /\ UNCHANGED exceptHs

\* Any other failure (timeout, another error event): connect() raises.
HandshakeError ==
    /\ hs.pc = "connecting"
    /\ hs' = [hs EXCEPT !.pc = "failed"]
    /\ UNCHANGED exceptHs

NextConnect ==
    \/ StartConnect
    \/ \E site \in {"created", "update", "exception"},
          header \in {<<>>} \cup {<<d>> : d \in 0..MaxDelay},
          connect_time \in 0..MaxConnectTime :
           Connect429(site, header, connect_time)
    \/ BackoffSleepDone
    \/ HandshakeOk
    \/ HandshakeError

SpecConnect == Init /\ [][NextConnect]_vars

\* ------------------------------------------- the carrier 429 backoff delay
\* RATE_LIMIT_PHASES of config.py; the last window is float('inf').
RATE_LIMIT_PHASES ==
    <<[window |-> 300, unbounded |-> FALSE, delay |-> 3],
      [window |-> 600, unbounded |-> FALSE, delay |-> 9],
      [window |-> 0, unbounded |-> TRUE, delay |-> 27]>>

IsDigit(c) == c \in {"0", "1", "2", "3", "4", "5", "6", "7", "8", "9"}
DigitVal(c) == CHOOSE n \in 0..9 : ToString(n) = c

\* The end of the run of digits that starts at s[i] (\d+ is greedy).
RECURSIVE DigitsEnd(_, _)
DigitsEnd(s, i) ==
    IF i <= Len(s) /\ IsDigit(s[i]) THEN DigitsEnd(s, i + 1) ELSE i

\* int() of the digits s[i] .. s[j-1].
RECURSIVE IntOf(_, _, _)
IntOf(s, i, j) ==
    IF i >= j THEN 0 ELSE IntOf(s, i, j - 1) * 10 + DigitVal(s[j - 1])

\* One optional group (\d+)<unit> of the duration pattern, tried at s[i].
Group(s, i, unit) ==
    IF DigitsEnd(s, i) > i /\ DigitsEnd(s, i) <= Len(s) /\ s[DigitsEnd(s, i)] = unit
    THEN [val |-> IntOf(s, i, DigitsEnd(s, i)), next |-> DigitsEnd(s, i) + 1]
    ELSE [val |-> 0, next |-> i]

\* parse_iso8601_duration: re.match of P(\d+D)?T(\d+H)?(\d+M)?(\d+S)? at
\* the start of the text (whatever follows the match is ignored); ok is
\* FALSE where the function raises ValueError.  Texts are taken without a
\* fractional part.
parse_iso8601_duration(s) ==
    IF s = <<>> \/ s[1] # "P" THEN [ok |-> FALSE, val |-> 0]
    ELSE LET d == Group(s, 2, "D") IN
         IF d.next > Len(s) \/ s[d.next] # "T" THEN [ok |-> FALSE, val |-> 0]
         ELSE LET h == Group(s, d.next + 1, "H")
                  m == Group(s, h.next, "M")
                  sec == Group(s, m.next, "S")
              IN [ok |-> TRUE,
                  val |-> d.val * 86400 + h.val * 3600 + m.val * 60 + sec.val]

\* float(text) for a text of digits; ok is FALSE where it raises ValueError.
Float(s) ==
    IF s # <<>> /\ DigitsEnd(s, 1) = Len(s) + 1
    THEN [ok |-> TRUE, val |-> IntOf(s, 1, Len(s) + 1)]
    ELSE [ok |-> FALSE, val |-> 0]

\* The `for phase in RATE_LIMIT_PHASES` loop from phase i on, with the
\* fallback to the last phase.
RECURSIVE PhaseDelay(_, _)
PhaseDelay(session_duration, i) ==
    IF i > Len(RATE_LIMIT_PHASES) THEN RATE_LIMIT_PHASES[Len(RATE_LIMIT_PHASES)].delay
    ELSE IF RATE_LIMIT_PHASES[i].unbounded \/ session_duration <= RATE_LIMIT_PHASES[i].window
         THEN RATE_LIMIT_PHASES[i].delay
         ELSE PhaseDelay(session_duration, i + 1)

\* handle_error consulting the Retry-After header before the retryAfter
\* parameter.
UsedDelay_HeaderFirst(e) ==
    IF e.header.present /\ e.header.text # <<>> /\ Float(e.header.text).ok
    THEN [used_delay |-> Float(e.header.text).val, source |-> "header"]
    ELSE IF e.header.present /\ e.header.text # <<>>
            /\ parse_iso8601_duration(e.header.text).ok
    THEN [used_delay |-> parse_iso8601_duration(e.header.text).val,
          source |-> "header"]
    ELSE IF e.retryAfter.present /\ parse_iso8601_duration(e.retryAfter.text).ok
    THEN [used_delay |-> parse_iso8601_duration(e.retryAfter.text).val,
          source |-> "retryAfter"]
    ELSE [used_delay |-> PhaseDelay(e.session_duration, 1), source |-> "phase"]

\* handle_error, the delay of a 429: retry_after from the retryAfter
\* parameter; only while it is None, from the Retry-After header (float,
\* then ISO-8601; an empty header counts as none); with retry_after still
\* None, the phase table.
UsedDelay(e) ==
    IF e.retryAfter.present /\ parse_iso8601_duration(e.retryAfter.text).ok
    THEN [used_delay |-> parse_iso8601_duration(e.retryAfter.text).val,
          source |-> "retryAfter"]
    ELSE IF e.header.present /\ e.header.text # <<>> /\ Float(e.header.text).ok
    THEN [used_delay |-> Float(e.header.text).val, source |-> "header"]
    ELSE IF e.header.present /\ e.header.text # <<>>
            /\ parse_iso8601_duration(e.header.text).ok
    THEN [used_delay |-> parse_iso8601_duration(e.header.text).val,
          source |-> "header"]
    ELSE [used_delay |-> PhaseDelay(e.session_duration, 1), source |-> "phase"]

\* The texts a retryAfter parameter or a Retry-After header may hold.
Texts ==
    {<<"P", "T", "5", "S">>, <<"P", "T", "1", "M", "2", "S">>,
     <<"P", "1", "D", "T", "2", "H">>, <<"P", "1", "D">>, <<"P", "T">>,
     <<"P", "T", "5", "S", "x">>, <<"4">>, <<"1", "2">>, <<"x">>, <<>>}
Fields == {Absent} \cup {Text(t) : t \in Texts}

\* Session ages on both sides of every phase window.
Ages == {0, 300, 301, 600, 601}

\* A carrier 429 with any of these fields at any of these ages.
InitBackoff ==
    /\ InitSession
    /\ td = NoDispatch /\ req = NoRequest /\ prompt = NoPrompt
    /\ pt = NoPacing /\ ck = NoChunker /\ ho = NoOpens /\ dc = NoContext
    /\ err \in [retryAfter : Fields, header : Fields, session_duration : Ages,
                 used_delay : {0}, source : {"none"}]

\* handle_error settles the delay it will sleep for.
ResolveDelay ==
    /\ err.source = "none"
    /\ err' = [err EXCEPT !.used_delay = UsedDelay(err).used_delay,
                          !.source = UsedDelay(err).source]
    /\ UNCHANGED exceptErr

NextBackoff == ResolveDelay

SpecBackoff == InitBackoff /\ [][NextBackoff]_vars

\* ---------------------------------------------------------- tool dispatch
\* _handle_function_call and _handle_genesys_tool_call of the two provider
\* clients, and the handlers build_genesys_tool_context registers.
Handlers == {"genesys_data_action_a", "genesys_data_action_b"}
EndCallNames == {"end_call", "end_conversation_successfully"}
HandoffNames == {"handoff_to_human", "end_conversation_with_escalation"}
FunctionNames == Handlers \cup {"end_call", "handoff_to_human", "lookup"}

\* tool_choice as configured: None, a string, or a dict with a type and a
\* function name.
Choice(kind, text, type, name) ==
    [kind |-> kind, text |-> text, type |-> type, name |-> name]
ChoiceTexts == {"none", " Disabled ", "NONE", "required", "auto", "lookup"}
ToolChoices ==
    {Choice("None", "", "", "")}
    \cup {Choice("str", t, "", "") : t \in ChoiceTexts}
    \cup {Choice("dict", "", ty, n) :
             ty \in {"function", "allowed_tools"},
             n \in {"", "genesys_data_action_a", "end_call"}}

\* choice.strip().lower() on the texts above.
Normalized(text) ==
    CASE text = " Disabled " -> "disabled"
      [] text = "NONE" -> "none"
      [] OTHER -> text

\* self._tool_policy = None.
NoPolicy == [mode |-> "no_policy", allowed |-> {}]

\* GeminiRealtimeClient._build_tool_policy.
BuildToolPolicy(has_tools, choice) ==
    IF ~has_tools THEN NoPolicy
    ELSE IF choice.kind = "str"
    THEN [mode |-> IF Normalized(choice.text) \in {"none", "disabled"} THEN "NONE"
                   ELSE IF Normalized(choice.text) \in {"required", "force", "any"}
                   THEN "ANY" ELSE "AUTO",
          allowed |-> {}]
    ELSE IF choice.kind = "dict" /\ choice.type = "function" /\ choice.name # ""
    THEN [mode |-> "VALIDATED", allowed |-> {choice.name}]
    ELSE [mode |-> "AUTO", allowed |-> {}]

\* The policy check admitting every call.
IsToolCallPermitted_Always(policy, function_name) == TRUE

\* GeminiRealtimeClient._is_tool_call_permitted.
IsToolCallPermitted(policy, function_name) ==
    IF policy = NoPolicy THEN TRUE
    ELSE IF policy.mode = "NONE" THEN FALSE
    ELSE IF policy.mode = "VALIDATED" /\ policy.allowed # {}
    THEN function_name \in policy.allowed
    ELSE TRUE

\* A function-call output: status is the payload's "status" or "result",
\* error_type tells whether the payload has an "error_type" field, by names
\* the code that built it.
Output(status, error_type, by) ==
    [status |-> status, error_type |-> error_type, by |-> by]

\* The output is handed to the provider socket.  OpenAI's _safe_send takes
\* the client's lock and drops the frame unless the client is running;
\* Gemini's handlers call session.send_tool_response directly.  on_socket
\* keeps, for the frames put on the socket, whether the lock was held and
\* what the running flag was.
SendOutput(t, id, payload) ==
    IF t.provider = "openai"
    THEN IF t.running
         THEN [t EXCEPT !.outputs[id] = Append(@, payload),
                        !.on_socket = @ \cup {[locked |-> TRUE, running |-> TRUE]}]
         ELSE t
    ELSE [t EXCEPT !.outputs[id] = Append(@, payload),
                   !.on_socket = @ \cup {[locked |-> FALSE, running |-> t.running]}]

\* The structured error of _handle_genesys_tool_call: Gemini's payload has
\* status, tool, error_type and message; OpenAI's has status, tool and
\* message.
ErrorOutput(provider) == Output("error", provider = "gemini", "handler")

\* The cap test with > where the handler has >=.
AtCap_OffByOne(count) == count > GENESYS_MAX_ACTION_CALLS_PER_SESSION

\* handler, first test: the session's invocations are used up.
AtCap(count) == count >= GENESYS_MAX_ACTION_CALLS_PER_SESSION

\* handler, up to `await GENESYS_ACTIONS_CLIENT.execute`: the call is
\* refused (GenesysToolError) at the cap, for arguments that are not a JSON
\* object, and for arguments over the byte limit.
HandlerRaises(count, is_dict, payload_bytes) ==
    \/ AtCap(count)
    \/ ~is_dict
    \/ payload_bytes > GENESYS_MAX_TOOL_ARGUMENT_BYTES

\* Argument sizes on both sides of the limit; "{}" takes two bytes.
ArgSizes == {2, GENESYS_MAX_TOOL_ARGUMENT_BYTES, GENESYS_MAX_TOOL_ARGUMENT_BYTES + 1}

\* A client of either provider with any tool_choice.
InitTools ==
    /\ InitSession
    /\ err = NoError /\ req = NoRequest /\ prompt = NoPrompt
    /\ pt = NoPacing /\ ck = NoChunker /\ ho = NoOpens /\ dc = NoContext
    /\ td \in {[NoDispatch EXCEPT !.provider = p, !.tool_choice = c] :
                  p \in {"openai", "gemini"}, c \in ToolChoices}

\* connect(): Gemini derives its policy from tool_choice (the call-control
\* tools are always declared, so has_tools holds); OpenAI hands tool_choice
\* to the provider and keeps no policy.  The reader starts.
ToolsConnect ==
    /\ td.reader = "none"
    /\ td' = [td EXCEPT !.policy = IF td.provider = "gemini"
                                   THEN BuildToolPolicy(TRUE, td.tool_choice)
                                   ELSE NoPolicy,
                        !.running = TRUE,
                        !.reader = "running"]
    /\ UNCHANGED exceptTd

\* The reader can take a function call with a fresh call id.
CanCall(id) ==
    /\ td.reader = "running"
    /\ td.calls[id].pc = "none"
    /\ \A j \in CallIds : j < id => td.calls[j].pc # "none"

\* A call the local policy blocks (Gemini): the rejection is returned and
\* nothing else happens.
CallRejected(id, name) ==
    /\ CanCall(id)
    /\ ~IsToolCallPermitted(td.policy, name)
    /\ td' = [SendOutput(td, id, Output("error", FALSE, "policy"))
                 EXCEPT !.calls[id] = [pc |-> "done", name |-> name]]
    /\ UNCHANGED exceptTd

\* A permitted call to a registered data-action tool: the handler refuses
\* it, or counts it and starts the action.
CallGenesysTool(id, name, is_dict, payload_bytes) ==
    /\ CanCall(id)
    /\ IsToolCallPermitted(td.policy, name)
    /\ name \in Handlers
    /\ td' = IF HandlerRaises(td.count, is_dict, payload_bytes)
             THEN [SendOutput(td, id, ErrorOutput(td.provider))
                      EXCEPT !.calls[id] = [pc |-> "done", name |-> name]]
             ELSE [td EXCEPT !.count = @ + 1,
                             !.executions = @ + 1,
                             !.calls[id] = [pc |-> "executing", name |-> name]]
    /\ UNCHANGED exceptTd

\* GENESYS_ACTIONS_CLIENT.execute returns or raises; the result or the
\* structured error goes back to the provider.
ExecuteDone(id, raised) ==
    /\ td.calls[id].pc = "executing"
    /\ td' = [SendOutput(td, id, IF raised THEN ErrorOutput(td.provider)
                                 ELSE Output("ok", FALSE, "handler"))
                 EXCEPT !.calls[id].pc = "done"]
    /\ UNCHANGED exceptTd

\* A permitted call to anything else: the call-control functions record the
\* disconnect context, an unknown name is answered as such.
CallOther(id, name) ==
    /\ CanCall(id)
    /\ IsToolCallPermitted(td.policy, name)
    /\ name \notin Handlers
    /\ td' = [SendOutput(td, id,
                  IF name \in EndCallNames \cup HandoffNames
                  THEN Output("ok", FALSE, "control")
                  ELSE Output(IF td.provider = "gemini" THEN "error" ELSE "ignored",
                              FALSE, "unknown"))
                 EXCEPT !.calls[id] = [pc |-> "done", name |-> name],
                        !.ctx = IF name \in EndCallNames THEN "completed"
                                ELSE IF name \in HandoffNames THEN "transfer"
                                ELSE @]
    /\ UNCHANGED exceptTd

\* A carrier 429 pauses the client (handle_error clears and later sets the
\* client's running flag).
ClientPause ==
    /\ td.reader = "running"
    /\ td' = [td EXCEPT !.running = ~@]
    /\ UNCHANGED exceptTd

NextTools ==
    \/ ToolsConnect
    \/ \E id \in CallIds, name \in FunctionNames : CallRejected(id, name)
    \/ \E id \in CallIds, name \in FunctionNames, is_dict \in BOOLEAN,
          payload_bytes \in ArgSizes :
           CallGenesysTool(id, name, is_dict, payload_bytes)
    \/ \E id \in CallIds, raised \in BOOLEAN : ExecuteDone(id, raised)
    \/ \E id \in CallIds, name \in FunctionNames : CallOther(id, name)
    \/ ClientPause

SpecTools == InitTools /\ [][NextTools]_vars

\* ------------------------------------------------------ validate_request
\* GENESYS_PATH of config.py, as characters.
GENESYS_PATH == <<"/", "a", "u", "d", "i", "o", "h", "o", "o", "k">>
\* GENESYS_API_KEY: the secret the deployment is configured with.
GENESYS_API_KEY == "secret"

\* Request paths: the health check, the carrier's path, paths that extend
\* it, and another one.
Paths ==
    {<<"/">>, <<>>, GENESYS_PATH, GENESYS_PATH \o <<"/", "v", "2">>,
     GENESYS_PATH \o <<"x">>, <<"/", "a", "p", "i">>}

\* str.startswith.
StartsWith(s, prefix) ==
    Len(s) >= Len(prefix) /\ SubSeq(s, 1, Len(prefix)) = prefix

\* str.lower on the header values used here.
Lower(text) == IF text = "WebSocket" THEN "websocket" ELSE text

\* header_keys.get(name, ''): the header's value, '' without the header.
Get(h) == IF h.present THEN h.text ELSE ""

\* The requests: a path and the headers validate_request looks at
\* (correlation_id stands for audiohook-correlation-id and
\* audiohook-session-id).
Requests ==
    [path : Paths,
     upgrade : {Absent, Text("websocket"), Text("WebSocket"), Text("h2c")},
     x_api_key : {Absent, Text(""), Text(GENESYS_API_KEY), Text("guess")},
     organization_id : {Absent, Text("org")},
     correlation_id : {Absent, Text("id")},
     sec_websocket_version : {Absent, Text("13"), Text("8")},
     sec_websocket_key : {Absent, Text(""), Text("key")}]

\* The response validate_request returns; None, which lets the upgrade
\* proceed, is status 101.
Response(status, body) == [status |-> status, body |-> body]
Accept == Response(101, "upgrade")

\* The required_headers loop: some required header is not in the request.
MissingHeaders(r) ==
    \E h \in {r.organization_id, r.correlation_id, r.upgrade,
              r.sec_websocket_version, r.sec_websocket_key} : ~h.present

\* validate_request without the x-api-key test.
validate_request_NoKeyCheck(r) ==
    IF r.path \in {<<"/">>, <<>>} /\ Lower(Get(r.upgrade)) # "websocket"
    THEN Response(200, "OK\n")
    ELSE IF ~StartsWith(r.path, GENESYS_PATH)
    THEN Response(404, "Invalid path\n")
    ELSE IF MissingHeaders(r)
    THEN Response(400, "Missing required headers")
    ELSE IF Lower(Get(r.upgrade)) # "websocket"
    THEN Response(400, "WebSocket upgrade required\n")
    ELSE IF Get(r.sec_websocket_version) # "13"
    THEN Response(400, "WebSocket version 13 required\n")
    ELSE IF Get(r.sec_websocket_key) = ""
    THEN Response(400, "WebSocket key required\n")
    ELSE Accept

\* validate_request: the health check, the path, the API key, the required
\* headers and their values, in this order.
validate_request(r) ==
    IF r.path \in {<<"/">>, <<>>} /\ Lower(Get(r.upgrade)) # "websocket"
    THEN Response(200, "OK\n")
    ELSE IF ~StartsWith(r.path, GENESYS_PATH)
    THEN Response(404, "Invalid path\n")
    ELSE IF Get(r.x_api_key) = ""
    THEN Response(401, "Missing 'x-api-key' header\n")
    ELSE IF Get(r.x_api_key) # GENESYS_API_KEY
    THEN Response(401, "Invalid API Key\n")
    ELSE IF MissingHeaders(r)
    THEN Response(400, "Missing required headers")
    ELSE IF Lower(Get(r.upgrade)) # "websocket"
    THEN Response(400, "WebSocket upgrade required\n")
    ELSE IF Get(r.sec_websocket_version) # "13"
    THEN Response(400, "WebSocket version 13 required\n")
    ELSE IF Get(r.sec_websocket_key) = ""
    THEN Response(400, "WebSocket key required\n")
    ELSE Accept

\* Any request arrives.
InitValidate ==
    /\ InitSession
    /\ err = NoError /\ td = NoDispatch /\ prompt = NoPrompt
    /\ pt = NoPacing /\ ck = NoChunker /\ ho = NoOpens /\ dc = NoContext
    /\ req \in {[request |-> r, response |-> NoRequest] : r \in Requests}

\* The server answers it.
Validate ==
    /\ req.response = NoRequest
    /\ req' = [req EXCEPT !.response = validate_request(req.request)]
    /\ UNCHANGED exceptReq

NextValidate == Validate

SpecValidate == InitValidate /\ [][NextValidate]_vars

\* -------------------------------------------- create_final_system_prompt
\* Texts are sequences of pieces; None and '' are both the empty text,
\* which is what the function's truth tests see.
AdminPrompts ==
    {<<"You are", "[AGENT_NAME]", "of", "[COMPANY_NAME]">>,
     <<"Welcome to", "Our Company">>,
     <<"Be brief">>,
     <<>>}
Languages == {"", "es-ES", "fr-FR"}
AgentNames == {"", "Max"}
CompanyNames == {"", "Acme"}

\* customer_data split on ';': each pair with or without a ':'.
Pair(has_colon, key, value) ==
    [has_colon |-> has_colon, key |-> key, value |-> value]
CustomerData ==
    {<<>>,
     <<Pair(TRUE, "name", "Ann")>>,
     <<Pair(TRUE, "name", "Ann"), Pair(TRUE, "tier", "gold")>>,
     <<Pair(FALSE, "no pair here", "")>>,
     <<Pair(TRUE, "name", "Ann"), Pair(TRUE, "name", "Bo")>>}

\* str.replace on a text of pieces.
Replace(text, old, new) ==
    [k \in 1..Len(text) |-> IF text[k] = old THEN new ELSE text[k]]

\* MASTER_SYSTEM_PROMPT, and LANGUAGE_SYSTEM_PROMPT.format(language=...).
MASTER_SYSTEM_PROMPT == [block |-> "master", language |-> ""]
LANGUAGE_SYSTEM_PROMPT(language) == [block |-> "language", language |-> language]

\* data_dict after the loop over the pairs: the keys in first-seen order,
\* each with the value of its last pair.
RECURSIVE DataKeys(_)
DataKeys(pairs) ==
    IF pairs = <<>> THEN <<>>
    ELSE LET front == DataKeys(SubSeq(pairs, 1, Len(pairs) - 1))
             last == pairs[Len(pairs)]
         IN IF last.has_colon /\ \A k \in 1..Len(front) : front[k] # last.key
            THEN Append(front, last.key) ELSE front
LastValue(pairs, key) ==
    LET idx == {k \in 1..Len(pairs) : pairs[k].has_colon /\ pairs[k].key = key}
    IN pairs[CHOOSE k \in idx : \A j \in idx : j <= k].value

\* customer_instructions: empty without a key: value pair.
CustomerInstructions(customer_data) ==
    IF DataKeys(customer_data) = <<>> THEN <<>>
    ELSE <<[block |-> "customer_data",
            lines |-> [k \in 1..Len(DataKeys(customer_data)) |->
                          <<DataKeys(customer_data)[k],
                            LastValue(customer_data, DataKeys(customer_data)[k])>>]]>>

\* The admin prompt after the replacements.
Substituted(admin_prompt, agent_name, company_name) ==
    LET a == IF agent_name # "" THEN Replace(admin_prompt, "[AGENT_NAME]", agent_name)
             ELSE admin_prompt
    IN IF company_name # ""
       THEN Replace(Replace(a, "[COMPANY_NAME]", company_name),
                    "Our Company", company_name)
       ELSE a

\* create_final_system_prompt: the blocks of the returned text, in order.
create_final_system_prompt(admin_prompt, language, customer_data, agent_name, company_name) ==
    <<[block |-> "tier1_header"],
      IF language # "" THEN LANGUAGE_SYSTEM_PROMPT(language) ELSE MASTER_SYSTEM_PROMPT,
      [block |-> "tier2_header"],
      [block |-> "admin",
       text |-> Substituted(admin_prompt, agent_name, company_name)]>>
    \o CustomerInstructions(customer_data)
    \o <<[block |-> "hierarchy_enforcement"], [block |-> "tool_usage"]>>

\* Any combination of arguments.
InitPrompt ==
    /\ InitSession
    /\ err = NoError /\ td = NoDispatch /\ req = NoRequest
    /\ pt = NoPacing /\ ck = NoChunker /\ ho = NoOpens /\ dc = NoContext
    /\ prompt \in [composed : {FALSE}, admin_prompt : AdminPrompts,
                   language : Languages, customer_data : CustomerData,
                   agent_name : AgentNames, company_name : CompanyNames,
                   result : {<<>>}]

\* The instructions are composed.
Compose ==
    /\ ~prompt.composed
    /\ prompt' = [prompt EXCEPT
          !.composed = TRUE,
          !.result = create_final_system_prompt(prompt.admin_prompt,
                        prompt.language, prompt.customer_data,
                        prompt.agent_name, prompt.company_name)]
    /\ UNCHANGED exceptPrompt

NextPrompt == Compose

SpecPrompt == InitPrompt /\ [][NextPrompt]_vars

\* ------------------------------------------------ the pacer and the clock
\* _process_audio_buffer with time.time() made explicit, in hundredths of
\* a second: AUDIO_FRAME_SEND_INTERVAL is 0.15 s, the idle sleep 0.01 s.
AUDIO_FRAME_SEND_INTERVAL == 15
MaxClock == 60
MaxFrames == 3
MaxPacingBuffer == 2

\* time.time() is far above the interval when the session starts, and
\* last_frame_time starts at 0.
InitPacing ==
    /\ InitSession
    /\ err = NoError /\ td = NoDispatch /\ req = NoRequest /\ prompt = NoPrompt
    /\ ck = NoChunker /\ ho = NoOpens /\ dc = NoContext
    /\ pt = [pc |-> "loop", clock |-> 2 * AUDIO_FRAME_SEND_INTERVAL, now |-> 0,
             last_frame_time |-> 0, audio_buffer |-> <<>>, sent |-> <<>>,
             produced |-> 0]

\* send_binary_to_genesys puts the next frame into the buffer.
PacingProduce ==
    /\ pt.pc # "none"
    /\ pt.produced < MaxFrames
    /\ Len(pt.audio_buffer) < MaxPacingBuffer
    /\ pt' = [pt EXCEPT !.produced = @ + 1,
                        !.audio_buffer = Append(@, pt.produced + 1)]
    /\ UNCHANGED exceptPt

\* The top of the loop taking the interval test as passed.
PacingLoop_NoInterval ==
    /\ pt.pc = "loop"
    /\ pt' = IF pt.audio_buffer # <<>>
             THEN [pt EXCEPT !.pc = "acquire", !.now = pt.clock]
             ELSE [pt EXCEPT !.pc = "sleep"]
    /\ UNCHANGED exceptPt

\* The top of the loop: with a frame buffered, now = time.time() is read
\* and compared with last_frame_time; when the interval has elapsed the
\* limiter is asked, otherwise the task sleeps 0.01 s.
PacingLoop ==
    /\ pt.pc = "loop"
    /\ pt' = IF /\ pt.audio_buffer # <<>>
                /\ pt.clock - pt.last_frame_time >= AUDIO_FRAME_SEND_INTERVAL
             THEN [pt EXCEPT !.pc = "acquire", !.now = pt.clock]
             ELSE [pt EXCEPT !.pc = "sleep"]
    /\ UNCHANGED exceptPt

\* binary_limiter.acquire() returns after d hundredths: with a token the
\* head of the buffer is popped and sent and last_frame_time takes the
\* value of now; without one the task sleeps for the interval.
PacingAcquire(granted, d) ==
    /\ pt.pc = "acquire"
    /\ pt.clock + d <= MaxClock
    /\ pt' = IF granted
             THEN [pt EXCEPT !.pc = "sleep",
                             !.clock = @ + d,
                             !.audio_buffer = Tail(@),
                             !.sent = Append(@, [frame |-> Head(pt.audio_buffer),
                                                 at |-> pt.now]),
                             !.last_frame_time = pt.now]
             ELSE [pt EXCEPT !.pc = "sleep_interval", !.clock = @ + d]
    /\ UNCHANGED exceptPt

\* asyncio.sleep(AUDIO_FRAME_SEND_INTERVAL) after a refused token.
PacingIntervalSlept ==
    /\ pt.pc = "sleep_interval"
    /\ pt.clock + AUDIO_FRAME_SEND_INTERVAL <= MaxClock
    /\ pt' = [pt EXCEPT !.pc = "sleep", !.clock = @ + AUDIO_FRAME_SEND_INTERVAL]
    /\ UNCHANGED exceptPt

\* asyncio.sleep(0.01) at the end of every iteration; the task wakes d
\* hundredths later.
PacingWake(d) ==
    /\ pt.pc = "sleep"
    /\ pt.clock + d <= MaxClock
    /\ pt' = [pt EXCEPT !.pc = "loop", !.clock = @ + d]
    /\ UNCHANGED exceptPt

NextPacing ==
    \/ PacingProduce
    \/ PacingLoop
    \/ \E granted \in BOOLEAN, d \in {0, 1} : PacingAcquire(granted, d)
    \/ PacingIntervalSlept
    \/ \E d \in {1, 7, AUDIO_FRAME_SEND_INTERVAL} : PacingWake(d)

SpecPacing == InitPacing /\ [][NextPacing]_vars

\* -------------------------------------------- the Gemini downlink chunker
\* GeminiRealtimeClient keeps the converted PCMU bytes that do not fill a
\* frame yet in _pending_pcmu_bytes and hands frames of _pcmu_frame_size
\* bytes to the audio callback.  A byte is the number of its arrival; the
\* silence byte is 0.
GENESYS_PCMU_FRAME_SIZE == 3
GENESYS_PCMU_SILENCE_BYTE == 0
MaxBytes == 7
MaxChunk == 4
MaxCloses == 2

\* bytes([GENESYS_PCMU_SILENCE_BYTE]) * pad_len
Silence(pad_len) == [j \in 1..pad_len |-> GENESYS_PCMU_SILENCE_BYTE]

\* The frames cut from the front of a buffer: k frames of size bytes each.
FramesOf(buf, k, size) == [f \in 1..k |-> SubSeq(buf, (f - 1) * size + 1, f * size)]

\* _buffer_and_emit_pcmu with a flush that emits what is left as it is.
buffer_and_emit_pcmu_NoPad(pending, pcmu_8k, force_flush, callback) ==
    LET ext == pending \o pcmu_8k
        k == Len(ext) \div GENESYS_PCMU_FRAME_SIZE
        rest == SubSeq(ext, k * GENESYS_PCMU_FRAME_SIZE + 1, Len(ext))
    IN  IF ~callback THEN [pending |-> ext, frames |-> <<>>]
        ELSE IF force_flush /\ rest # <<>>
             THEN [pending |-> <<>>, frames |-> FramesOf(ext, k, GENESYS_PCMU_FRAME_SIZE) \o <<rest>>]
             ELSE [pending |-> rest, frames |-> FramesOf(ext, k, GENESYS_PCMU_FRAME_SIZE)]

\* _buffer_and_emit_pcmu: extend the pending bytes; without a callback
\* return; emit every full frame; on force_flush pad what is left to a
\* frame with silence and emit it.  The result is the pending bytes left
\* and the frames handed to _deliver_pcmu_frame, in order.
buffer_and_emit_pcmu(pending, pcmu_8k, force_flush, callback) ==
    LET ext == pending \o pcmu_8k
        k == Len(ext) \div GENESYS_PCMU_FRAME_SIZE
        rest == SubSeq(ext, k * GENESYS_PCMU_FRAME_SIZE + 1, Len(ext))
        pad_len == (0 - Len(rest)) % GENESYS_PCMU_FRAME_SIZE
    IN  IF ~callback THEN [pending |-> ext, frames |-> <<>>]
        ELSE IF force_flush /\ rest # <<>>
             THEN [pending |-> <<>>, frames |-> FramesOf(ext, k, GENESYS_PCMU_FRAME_SIZE) \o <<rest \o Silence(pad_len)>>]
             ELSE [pending |-> rest, frames |-> FramesOf(ext, k, GENESYS_PCMU_FRAME_SIZE)]

\* The bytes of a message's audio, numbered on from those received so far.
Chunk(received, n) == [j \in 1..n |-> received + j]

\* The set of the elements of a sequence.
Range(q) == {q[j] : j \in 1..Len(q)}

\* __init__: no callback, nothing pending, running set by connect.
InitChunker ==
    /\ InitSession
    /\ err = NoError /\ td = NoDispatch /\ req = NoRequest /\ prompt = NoPrompt
    /\ pt = NoPacing /\ ho = NoOpens /\ dc = NoContext
    /\ ck = [pc |-> "new", running |-> TRUE, callback |-> FALSE, pending |-> <<>>,
             delivered |-> <<>>, dropped |-> {}, received |-> 0, closes |-> 0,
             interrupted |-> FALSE]

\* start_receiving: install the callback, clear the pending bytes, create
\* the read task.
ChunkerStart ==
    /\ ck.pc = "new"
    /\ ck.running
    /\ ck' = [ck EXCEPT !.pc = "recv", !.callback = TRUE, !.pending = <<>>]
    /\ UNCHANGED exceptCk

\* _read_loop, one message up to the end of the turn_complete branch: the
\* loop ends when the client is not running; audio data is converted and
\* chunked; turn_complete flushes.
ChunkerMessage(n, turn_complete, interrupted) ==
    /\ ck.pc = "recv"
    /\ ck.received + n <= MaxBytes
    /\ IF ~ck.running
       THEN ck' = [ck EXCEPT !.pc = "done"]
       ELSE LET data == buffer_and_emit_pcmu(ck.pending, Chunk(ck.received, n), FALSE, ck.callback)
                emitted == IF n > 0 THEN data ELSE [pending |-> ck.pending, frames |-> <<>>]
                flushed == buffer_and_emit_pcmu(emitted.pending, <<>>, TRUE, ck.callback)
                turn == IF turn_complete
                        THEN [pending |-> flushed.pending, frames |-> emitted.frames \o flushed.frames]
                        ELSE emitted
            IN  ck' = [ck EXCEPT !.pc = "content", !.received = @ + n,
                                 !.pending = turn.pending,
                                 !.delivered = @ \o turn.frames,
                                 !.interrupted = interrupted]
    /\ UNCHANGED exceptCk

\* _read_loop, the end of the server_content branch: an interrupted
\* generation drops the pending bytes.
ChunkerInterrupted ==
    /\ ck.pc = "content"
    /\ ck' = [ck EXCEPT !.pc = "recv", !.interrupted = FALSE,
                        !.pending = IF ck.interrupted THEN <<>> ELSE @,
                        !.dropped = IF ck.interrupted THEN @ \cup Range(ck.pending) ELSE @]
    /\ UNCHANGED exceptCk

\* close: running is cleared, the pending bytes are flushed and cleared,
\* the callback is removed.  The read task is cancelled after an await, so
\* the reader may still finish the message it is in.
ChunkerClose ==
    /\ ck.closes < MaxCloses
    /\ LET flushed == buffer_and_emit_pcmu(ck.pending, <<>>, TRUE, ck.callback)
       IN  ck' = [ck EXCEPT !.running = FALSE, !.callback = FALSE, !.pending = <<>>,
                            !.delivered = @ \o flushed.frames,
                            !.dropped = @ \cup Range(flushed.pending),
                            !.closes = @ + 1]
    /\ UNCHANGED exceptCk

NextChunker ==
    \/ ChunkerStart
    \/ \E n \in 0..MaxChunk, turn_complete \in BOOLEAN, interrupted \in BOOLEAN : ChunkerMessage(n, turn_complete, interrupted)
    \/ ChunkerInterrupted
    \/ ChunkerClose

SpecChunker == InitChunker /\ [][NextChunker]_vars

\* ------------------------------------------- the objects of handle_open
\* handle_open assigns a new OpenAIRealtimeClient to self.openai_client and
\* start_audio_processing a new task to self.audio_process_task.  ho keeps
\* every client and every pacer task created, and which of them the two
\* attributes refer to (0 is None).
MaxOpens == 3

NewProviderClient == [ws |-> "none", reader |-> "none"]

\* OpenAIRealtimeClient.close on the client self.openai_client refers to:
\* the socket is closed and the read task cancelled.
CloseCurrent(clients, current) ==
    IF current = 0 THEN clients
    ELSE [clients EXCEPT ![current] = [ws |-> IF @.ws = "none" THEN "none" ELSE "closed",
                                      reader |-> IF @.reader = "none" THEN "none" ELSE "done"]]

\* stop_audio_processing: the task self.audio_process_task refers to is
\* cancelled.
CancelCurrent(tasks, task) ==
    IF task = 0 THEN tasks ELSE [tasks EXCEPT ![task] = "done"]

InitOpens ==
    /\ InitSession
    /\ err = NoError /\ td = NoDispatch /\ req = NoRequest /\ prompt = NoPrompt
    /\ pt = NoPacing /\ ck = NoChunker /\ dc = NoContext
    /\ ho = [pc |-> "recv", running |-> TRUE, clients |-> <<>>, client |-> 0,
             tasks |-> <<>>, task |-> 0, opens |-> 0]

\* handle_message, `open`: handle_open up to its first branch that ends or
\* to the await of connect.  A probe is answered; an offer without
\* PCMU/8000 is refused and running cleared; otherwise `opened` is sent and
\* a new client is assigned to self.openai_client.
OpensOpen(is_probe, has_media) ==
    /\ ho.pc = "recv"
    /\ ho.running
    /\ ho.opens < MaxOpens
    /\ ho' = IF is_probe THEN [ho EXCEPT !.opens = @ + 1]
             ELSE IF ~has_media
             THEN [ho EXCEPT !.opens = @ + 1, !.running = FALSE, !.pc = "cleanup"]
             ELSE [ho EXCEPT !.opens = @ + 1, !.pc = "connect",
                             !.clients = Append(@, NewProviderClient),
                             !.client = Len(ho.clients) + 1]
    /\ UNCHANGED exceptHo

\* handle_open after connect: on success start_audio_processing assigns a
\* new task and start_receiving starts the client's reader; on failure
\* disconnect_session clears running, cancels the task the attribute refers
\* to and closes the client it refers to.
OpensConnect(ok) ==
    /\ ho.pc = "connect"
    /\ ho' = IF ok
             THEN [ho EXCEPT !.pc = "recv",
                             !.clients[ho.client] = [ws |-> "open", reader |-> "run"],
                             !.tasks = Append(@, "run"),
                             !.task = Len(ho.tasks) + 1]
             ELSE [ho EXCEPT !.pc = "cleanup", !.running = FALSE,
                             !.tasks = CancelCurrent(@, ho.task), !.task = 0,
                             !.clients = CloseCurrent(@, ho.client)]
    /\ UNCHANGED exceptHo

\* handle_close or disconnect_session run from the carrier read loop: the
\* task and the client the attributes refer to are stopped.
OpensClose ==
    /\ ho.pc = "recv"
    /\ ho.running
    /\ ho' = [ho EXCEPT !.pc = "cleanup", !.running = FALSE,
                        !.tasks = CancelCurrent(@, ho.task), !.task = 0,
                        !.clients = CloseCurrent(@, ho.client)]
    /\ UNCHANGED exceptHo

\* handle_genesys_connection after the loop: session.openai_client is
\* closed.
OpensCleanup ==
    /\ ho.pc = "cleanup"
    /\ ho' = [ho EXCEPT !.pc = "done", !.clients = CloseCurrent(@, ho.client)]
    /\ UNCHANGED exceptHo

\* _process_audio_buffer in task i: `while self.running` ends the task.
OpensPacerExit(i) ==
    /\ i \in 1..Len(ho.tasks)
    /\ ho.tasks[i] = "run"
    /\ ~ho.running
    /\ ho' = [ho EXCEPT !.tasks[i] = "done"]
    /\ UNCHANGED exceptHo

\* The provider closes the socket of client i: its reader ends.
OpensProviderCloses(i) ==
    /\ i \in 1..Len(ho.clients)
    /\ ho.clients[i].ws = "open"
    /\ ho' = [ho EXCEPT !.clients[i] = [ws |-> "closed", reader |-> "done"]]
    /\ UNCHANGED exceptHo

NextOpens ==
    \/ \E is_probe \in BOOLEAN, has_media \in BOOLEAN : OpensOpen(is_probe, has_media)
    \/ \E ok \in BOOLEAN : OpensConnect(ok)
    \/ OpensClose
    \/ OpensCleanup
    \/ \E i \in 1..MaxOpens : OpensPacerExit(i)
    \/ \E i \in 1..MaxOpens : OpensProviderCloses(i)

SpecOpens == InitOpens /\ [][NextOpens]_vars

\* ---------------------------------------------- the disconnect context
\* _disconnect_context and _await_disconnect_on_done of the provider client
\* through the reader's handling of a message: the function calls it holds
\* and the point where a pending context is consumed.  OpenAI handles the
\* function calls of a response.done and then consumes; Gemini consumes on
\* turn_complete and then handles the function calls of the same message.
MaxToolCalls == 3
MaxItems == 2
MaxMessages == 3

\* The function names a message may hold.
ItemNames == {"end_call", "end_conversation_successfully", "handoff_to_human", "end_conversation_with_escalation", "lookup"}
RECURSIVE SeqsUpTo(_, _)
SeqsUpTo(S, n) == IF n = 0 THEN {<<>>} ELSE SeqsUpTo(S, n - 1) \cup {Append(q, x) : q \in {r \in SeqsUpTo(S, n - 1) : Len(r) = n - 1}, x \in S}

\* _read_loop: the callback invoked for a consumed context.  OpenAI tests
\* the action for "end_call" and "handoff_to_human", Gemini for the tags
\* _handle_function_call records; a callback that is not set is not called.
CallbackOf(provider, action, wired) ==
    LET end == IF provider = "openai" THEN "end_call" ELSE "end_conversation_successfully"
        handoff == IF provider = "openai" THEN "handoff_to_human" ELSE "end_conversation_with_escalation"
    IN  IF ~wired THEN "none"
        ELSE IF action = end THEN "on_end_call_request"
        ELSE IF action = handoff THEN "on_handoff_request"
        ELSE "none"

\* The consumption clearing the flag and leaving the context in place.
Consumed_KeepsContext(d) == [d EXCEPT !.await_disconnect_on_done = FALSE, !.consumed = @ + 1]

\* _read_loop: the flag and the context are cleared together.
Consumed(d) == [d EXCEPT !.await_disconnect_on_done = FALSE, !.disconnect_context = "None", !.consumed = @ + 1]

InitContext ==
    /\ InitSession
    /\ err = NoError /\ td = NoDispatch /\ req = NoRequest /\ prompt = NoPrompt
    /\ pt = NoPacing /\ ck = NoChunker /\ ho = NoOpens
    /\ dc \in {[pc |-> "recv", provider |-> p, wired |-> w, items |-> <<>>,
                turn |-> FALSE, cancelled |-> FALSE,
                await_disconnect_on_done |-> FALSE, disconnect_context |-> "None",
                cb |-> "none", calls |-> 0, consumed |-> 0, callbacks |-> 0,
                msgs |-> 0] : p \in {"openai", "gemini"}, w \in BOOLEAN}

\* The reader takes a message: an OpenAI response.done (always a point of
\* consumption) or a Gemini message with or without turn_complete.
ContextMessage(items, turn) ==
    /\ dc.pc = "recv"
    /\ dc.msgs < MaxMessages
    /\ Len(items) + dc.calls <= MaxToolCalls
    /\ dc.provider = "openai" => turn
    /\ dc' = [dc EXCEPT !.msgs = @ + 1, !.items = items, !.turn = turn,
                        !.pc = IF dc.provider = "gemini" THEN "consume" ELSE "items"]
    /\ UNCHANGED exceptDc

\* _handle_function_call for the next function call of the message: a
\* call-control name records the context and sets the flag, then the
\* outputs are sent; a reader cancelled by close() ends at that send.
ContextHandleCall(permitted) ==
    /\ dc.pc = "items"
    /\ dc.provider = "openai" => permitted
    /\ IF dc.items = <<>>
       THEN dc' = [dc EXCEPT !.pc = IF dc.cancelled THEN "done"
                                    ELSE IF dc.provider = "openai" THEN "consume" ELSE "recv"]
       ELSE LET name == Head(dc.items)
                control == permitted /\ ToolAction(name) # "None"
            IN  dc' = [dc EXCEPT !.items = IF dc.cancelled THEN <<>> ELSE Tail(@),
                                 !.disconnect_context = IF control THEN ToolAction(name) ELSE @,
                                 !.await_disconnect_on_done = IF control THEN TRUE ELSE @,
                                 !.calls = IF control THEN @ + 1 ELSE @]
    /\ UNCHANGED exceptDc

\* _read_loop at the point of consumption: with the flag set and a context
\* recorded both are cleared and the callback for the action is chosen.
ContextConsume ==
    /\ dc.pc = "consume"
    /\ LET consume == dc.turn /\ dc.await_disconnect_on_done /\ dc.disconnect_context # "None"
           cb == IF consume THEN CallbackOf(dc.provider, dc.disconnect_context, dc.wired) ELSE "none"
           d1 == IF consume THEN Consumed(dc) ELSE dc
       IN  dc' = [d1 EXCEPT !.cb = cb,
                            !.pc = IF cb # "none" THEN "callback"
                                   ELSE IF dc.provider = "gemini" THEN "items" ELSE "recv"]
    /\ UNCHANGED exceptDc

\* The callback runs disconnect_session in the reader task: the client is
\* closed, which cancels the reader at its next suspension.
ContextCallback ==
    /\ dc.pc = "callback"
    /\ dc' = [dc EXCEPT !.callbacks = @ + 1, !.cb = "none", !.cancelled = TRUE,
                        !.pc = IF dc.provider = "gemini" THEN "items" ELSE "done"]
    /\ UNCHANGED exceptDc

NextContext ==
    \/ \E items \in SeqsUpTo(ItemNames, MaxItems), turn \in BOOLEAN : ContextMessage(items, turn)
    \/ \E permitted \in BOOLEAN : ContextHandleCall(permitted)
    \/ ContextConsume
    \/ ContextCallback

SpecContext == InitContext /\ [][NextContext]_vars

\* ------------------------------------------------------------- claims
\* A step that puts a JSON frame on the carrier socket.
JsonSent == wire'.json # wire.json

\* The frame the session built last is the frame the carrier saw last: the
\* message limiter did not refuse it.
LastBuiltOnWire == wire.json.seq = server_seq

\* The log position of the first occurrence of an event (0 when absent).
FirstAt(log, e) ==
    IF \E i \in 1..Len(log) : log[i] = e
    THEN CHOOSE i \in 1..Len(log) : log[i] = e /\ \A j \in 1..(i - 1) : log[j] # e
    ELSE 0

\* The call-control tool the provider called last.
LastTool(log) ==
    LET idx == {i \in 1..Len(log) : ToolAction(log[i]) # "None"}
    IN  IF idx = {} THEN "None"
        ELSE log[CHOOSE i \in idx : \A j \in idx : j <= i]

\* C1: the seq of every JSON frame put on the carrier socket is one more
\* than the seq of the JSON frame put there before it, the first being 1.
C1_SeqConsecutive ==
    [][JsonSent => wire'.json.seq = wire.json.seq + 1]_vars

\* C2: every JSON frame put on the carrier socket carries as clientseq the
\* seq of the last carrier JSON message received before the frame is sent,
\* frames built by the provider reader task included.
C2_ClientseqIsLastReceived ==
    [][JsonSent => wire'.json.clientseq = carrierSeq]_vars

\* C3: after a call-control tool call the function-call output goes to the
\* provider first, the farewell instruction second, the disconnect callback
\* is not invoked before the farewell response has completed, and it is
\* invoked when the farewell response completes.
C3_FarewellBeforeDisconnect ==
    LET out1 == FirstAt(toProvider, "tool_output")
        instr == FirstAt(toProvider, "farewell_instr")
        fdone == FirstAt(toProvider, "farewell_done")
        cb == FirstAt(toProvider, "disconnect_cb")
    IN  /\ instr # 0 => (out1 # 0 /\ out1 < instr)
        /\ cb # 0 => (fdone # 0 /\ instr < fdone /\ fdone < cb)
        /\ fdone # 0 => cb # 0

\* C4: when a response completion consumes the disconnect context of a
\* call-control tool call, the session starts its disconnect with reason
\* "completed" for end_conversation_successfully and "transfer" for
\* end_conversation_with_escalation.
C4_ConsumedContextDisconnects ==
    [][Count(toProvider', "ctx_consumed") > Count(toProvider, "ctx_consumed")
       => /\ InDisconnect("reader")'
          /\ reason'["reader"] =
                 IF LastTool(toProvider') = "end_conversation_successfully"
                 THEN "completed" ELSE "transfer"]_vars

\* C5: while the carrier read loop sleeps in a 429 backoff no frame, JSON
\* or audio, is put on the carrier socket.
C5_SilentDuringBackoff ==
    [][pc["main"] = "backoff" => wire' = wire]_vars

\* C6: once a 429 backoff has completed within the retry maximum and the
\* session runs on an open carrier socket, the in-backoff flag is clear and
\* a buffered audio frame has a live pacer task to send it.
C6_PacerResumesAfterBackoff ==
    (/\ retry_count \in 1..RATE_LIMIT_MAX_RETRIES
     /\ pc["main"] # "backoff"
     /\ running
     /\ wsOpen)
    => /\ ~in_backoff
       /\ audio_buffer # <<>> => pacer \in {"sleep", "acquire"}

\* C7: the retry count never decreases, and a session that ends because
\* the 429 count exceeded the maximum has put a `disconnect` frame with
\* reason "error" on the (open) carrier socket, unless the message limiter
\* refused the frame.
C7_RetriesExhaustedDisconnects ==
    [][/\ retry_count' >= retry_count
       /\ (/\ retry_count' > RATE_LIMIT_MAX_RETRIES
           /\ pc'["main"] = "done"
           /\ wsOpen'
           /\ LastBuiltOnWire')
          => /\ wire'.json.type = "disconnect"
             /\ wire'.json.param = "error"]_vars

\* C8: a session whose provider connection could not be established has,
\* when handle_open is over, put a `disconnect` frame with reason "error"
\* on the (open) carrier socket, unless the message limiter refused it, and
\* is not running.
C8_ConnectFailureDisconnects ==
    (/\ client.exists
     /\ pc["reader"] = "none"
     /\ pc["main"] = "done"
     /\ wsOpen
     /\ LastBuiltOnWire)
    => /\ wire.json.type = "disconnect"
       /\ wire.json.param = "error"
       /\ ~running

\* C9: once the provider socket has closed under a session, the session is
\* not left running: it is in disconnect_session, or over, or not running.
C9_DeadProviderTearsDown ==
    (client.exists /\ client.ws = "closed")
    => \/ ~running
       \/ InDisconnect("reader")
       \/ InDisconnect("main")
       \/ pc["main"] = "done"

\* C10: every `disconnect` frame disconnect_session puts on the carrier
\* socket carries the six token counters in outputVariables.
C10_DisconnectCarriesTokenCounters ==
    [][\A t \in Tasks :
          (pc[t] = "d_send" /\ JsonSent) => wire'.json.tokens]_vars

\* ------------------------------------------------ disconnect, re-entered
\* _on_end_call_request / _on_handoff_request run in the reader task: the
\* response.done handler of _read_loop invokes the callback wired by
\* handle_open, which calls disconnect_session(reason).  (With the action
\* tags _handle_function_call records, ProvResponseDone never takes this
\* branch; SpecCallback lets the callback run so that disconnect_session is
\* entered from the reader as well as from the carrier read loop.)
OnEndCallRequest(rsn) ==
    /\ CanRead
    /\ nProvider' = nProvider + 1
    /\ reason' = [reason EXCEPT !["reader"] = rsn]
    /\ pc' = [pc EXCEPT !["reader"] = "d_summary"]
    /\ client' = [client EXCEPT !.last_response = "dict", !.future = "reader"]
    /\ fut' = [fut EXCEPT !["reader"] = "pending"]
    /\ toProvider' =
           IF CanSend(client)
           THEN toProvider \o <<"disconnect_cb", "summary_request">>
           ELSE Append(toProvider, "disconnect_cb")
    /\ UNCHANGED <<client_seq, server_seq, running, in_backoff, retry_count,
                   audio_buffer, out, pacer, pendingAudio, msgTokens,
                   binTokens, wsOpen, nCarrier, carrierSeq, session_id, msg, wire>>
    /\ UNCHANGED auxVars

\* The carrier side of a session and its teardown paths, without the
\* provider's audio and response events.
NextCarrier ==
    \/ RecvPing
    \/ SendPong
    \/ RecvIgnored
    \/ RecvBinary
    \/ \E is_probe \in BOOLEAN, offered_media \in Offers :
           RecvOpen(is_probe, offered_media)
    \/ SendProbeOpened
    \/ SendNoMedia
    \/ SendOpened
    \/ ConnectOk
    \/ ConnectFail
    \/ RecvBadJson
    \/ CarrierCloses
    \/ RecvConnectionClosed
    \/ \E t \in Tasks, res \in {"obj", "error"} : DisconnectSummaryDone(t, res)
    \/ \E t \in Tasks : DisconnectSend(t)
    \/ \E t \in Tasks : DisconnectFinish(t)
    \/ RecvClose
    \/ \E res \in {"obj", "error", ""} : CloseSummaryDone(res)
    \/ SendClosedFrame
    \/ ProvSocketClosed
    \/ Refill

NextCallback ==
    \/ NextCarrier
    \/ \E rsn \in {"completed", "transfer"} : OnEndCallRequest(rsn)

SpecCallback == Init /\ [][NextCallback]_vars

\* disconnect_session has run to its end in the reader task.
ReaderDisconnected ==
    /\ \E i \in 1..Len(toProvider) : toProvider[i] = "disconnect_cb"
    /\ pc["reader"] = "done"

AudioProduced ==
    pendingAudio # <<>> /\ pendingAudio' = Tail(pendingAudio)

\* The last n elements of a sequence (all of it when it is shorter).
LastN(q, n) ==
    IF Len(q) <= n THEN q ELSE SubSeq(q, Len(q) - n + 1, Len(q))

\* C12: a frame produced for a running session is retained, and on a full
\* buffer the oldest frame makes room for it: afterwards the buffer holds
\* the most recent MaxBuffer frames in production order.
C12_OverflowDropsOldest ==
    [][(AudioProduced /\ running)
       => audio_buffer' =
              LastN(Append(audio_buffer, Head(pendingAudio)), MaxBuffer)]_vars

\* ---------------------------------------------------------- probe sessions
\* Nothing of a conversation exists: no client, no reader, no pacer, nothing
\* sent to the provider, no audio buffered or put on the carrier socket.
ProbeInert ==
    /\ ~client.exists
    /\ pc["reader"] = "none"
    /\ pacer = "none"
    /\ toProvider = <<>>
    /\ audio_buffer = <<>>
    /\ wire.audio = 0

Supported(m) == m.format = "PCMU" /\ m.rate = 8000
SupportedAt(media) == {i \in DOMAIN media : Supported(media[i])}
FirstSupported(media) ==
    media[CHOOSE i \in SupportedAt(media) : \A j \in SupportedAt(media) : i <= j]

\* The step in which the main task goes from await a to somewhere else.
MainLeaves(a) == pc["main"] = a /\ pc'["main"] # a

C15_PingAnsweredWithPong ==
    [][/\ (MainLeaves("recv") /\ pc'["main"] = "send_pong")
          => out'["main"] = Frame("pong", server_seq + 1, RecvSeq, "", FALSE, "")
       /\ (MainLeaves("send_pong") /\ wsOpen)
          => wire'.json = out["main"]]_vars

\* ------------------------------------------------------------------ close
\* C16: on `close` the `closed` frame that is built carries the parsed
\* summary object when the provider returned one in time, and null (no
\* summary) when there is no client or the summary did not arrive.
C16_ClosedSummaryNullOnFailure ==
    [][(MainLeaves("recv") \/ MainLeaves("c_summary")) /\ pc'["main"] = "send_closed"
       => /\ out'["main"].type = "closed"
          /\ out'["main"].summary \in {"obj", ""}
          /\ (~client.exists \/ fut["main"] = "pending")
                => out'["main"].summary = ""]_vars

\* ------------------------------------------------- provider handshake retry
\* C17: under repeated provider 429 responses during connect, at most
\* RATE_LIMIT_MAX_RETRIES backoff-and-reconnect attempts are made, whatever
\* the delays between them.
C17_HandshakeRetriesBounded == hs.attempts <= RATE_LIMIT_MAX_RETRIES

\* ------------------------------------------------ carrier backoff delay
\* A retryAfter parameter or Retry-After header that yields a delay.
ParamUsable(e) == e.retryAfter.present /\ parse_iso8601_duration(e.retryAfter.text).ok
HeaderUsable(e) ==
    /\ e.header.present
    /\ Float(e.header.text).ok \/ parse_iso8601_duration(e.header.text).ok
HeaderValue(e) ==
    IF Float(e.header.text).ok THEN Float(e.header.text).val
    ELSE parse_iso8601_duration(e.header.text).val
FirstPhaseFor(age) ==
    CHOOSE i \in 1..Len(RATE_LIMIT_PHASES) :
        /\ RATE_LIMIT_PHASES[i].unbounded \/ age <= RATE_LIMIT_PHASES[i].window
        /\ \A j \in 1..(i - 1) :
              ~RATE_LIMIT_PHASES[j].unbounded /\ age > RATE_LIMIT_PHASES[j].window

\* C18: the delay used for a carrier 429 is the parsed retryAfter parameter
\* when it is present and parsable; otherwise the parsed Retry-After header
\* (seconds or ISO-8601); otherwise the delay of the first phase whose
\* window is at least the session age.
C18_DelayPriority ==
    err.source # "none"
    => /\ ParamUsable(err)
          => /\ err.source = "retryAfter"
             /\ err.used_delay = parse_iso8601_duration(err.retryAfter.text).val
       /\ (~ParamUsable(err) /\ HeaderUsable(err))
          => err.source = "header" /\ err.used_delay = HeaderValue(err)
       /\ (~ParamUsable(err) /\ ~HeaderUsable(err))
          => /\ err.source = "phase"
             /\ err.used_delay =
                    RATE_LIMIT_PHASES[FirstPhaseFor(err.session_duration)].delay

\* An unparsable retryAfter with an ISO-8601 header: the header's 62
\* seconds are used.
C18_Witness ==
    /\ err.retryAfter = Text(<<"P", "1", "D">>)
    /\ err.header = Text(<<"P", "T", "1", "M", "2", "S">>)
    /\ err.source = "header"
    /\ err.used_delay = 62

\* ------------------------------------------------------------ session id
\* A further `open` on a session that has had one: handle_open again, here
\* for the opens that end in its first two branches (a probe, or an offer
\* without PCMU/8000).  id is the message's id.
RecvOpenAgain(id, is_probe, offered_media) ==
    /\ CanRecvRoutine
    /\ session_id # "uuid"
    /\ ~Skipped
    /\ is_probe \/ Chosen(offered_media) = <<>>
    /\ nCarrier' = nCarrier + 1
    /\ carrierSeq' = RecvSeq
    /\ client_seq' = RecvSeq
    /\ session_id' = id
    /\ msg' = OpenMsg(is_probe, offered_media)
    /\ server_seq' = server_seq + 1
    /\ out' = [out EXCEPT !["main"] =
                  IF is_probe
                  THEN Frame("opened", server_seq + 1, RecvSeq,
                             MediaParam(<<>>), FALSE, "")
                  ELSE Frame("disconnect", server_seq + 1, RecvSeq,
                             "error", FALSE, "")]
    /\ pc' = [pc EXCEPT !["main"] =
                 IF is_probe THEN "send_probe" ELSE "send_nomedia"]
    /\ UNCHANGED <<running, in_backoff, retry_count, audio_buffer, client,
                   reason, fut, pacer, pendingAudio, msgTokens, binTokens,
                   wsOpen, nProvider, wire, toProvider>>
    /\ UNCHANGED auxVars

NextReopen ==
    \/ NextCarrier
    \/ \E id \in {"p1", "s1", "s2"}, is_probe \in BOOLEAN, offered_media \in Offers :
           RecvOpenAgain(id, is_probe, offered_media)

SpecReopen == Init /\ [][NextReopen]_vars

\* C19: once an `open` has set the session id, no later message changes it.
C19_SessionIdImmutable ==
    [][session_id # "uuid" => session_id' = session_id]_vars

\* ---------------------------------------------------------- downlink order
\* Frames are numbered in the order the provider produced them.  The last
\* frame sent, the frames buffered and the frames still held by their
\* tasks, in this order, are in production order without repetition.
Increasing(q) == \A i, j \in DOMAIN q : i < j => q[i] < q[j]
DownlinkInOrder == Increasing(<<wire.audio>> \o audio_buffer \o pendingAudio)

Taken(id) == td.calls[id].pc = "none" /\ td'.calls[id].pc # "none"

\* The step answers call id with the rejection and does nothing else: no
\* handler is entered and no disconnect context is recorded.
Rejected(id) ==
    /\ td'.calls[id].pc = "done"
    /\ td'.count = td.count /\ td'.executions = td.executions
    /\ td'.ctx = td.ctx
    /\ td'.outputs[id] = <<Output("error", FALSE, "policy")>>

\* The step lets call id through to its handler.
Admitted(id) ==
    /\ \A k \in 1..Len(td'.outputs[id]) : td'.outputs[id][k].by # "policy"
    /\ td'.calls[id].name \in EndCallNames => td'.ctx = "completed"
    /\ td'.calls[id].name \in HandoffNames => td'.ctx = "transfer"
    /\ td'.calls[id].name \in Handlers =>
           \/ td'.calls[id].pc = "executing" /\ td'.executions = td.executions + 1
           \/ td'.calls[id].pc = "done" /\ td'.executions = td.executions

ChoiceIsNone ==
    td.tool_choice.kind = "str"
    /\ Normalized(td.tool_choice.text) \in {"none", "disabled"}
ChoiceIsFunction ==
    td.tool_choice.kind = "dict" /\ td.tool_choice.type = "function"
    /\ td.tool_choice.name # ""

\* C21: in the Gemini client, with tool_choice none or disabled every
\* function call is rejected (the rejection is returned, no handler runs,
\* no disconnect context is recorded); with tool_choice naming a function
\* only calls of that name are admitted; otherwise every call is admitted.
C21_ToolPolicyGatesCalls ==
    [][td.provider = "gemini" =>
         \A id \in CallIds : Taken(id) =>
            IF ChoiceIsNone THEN Rejected(id)
            ELSE IF ChoiceIsFunction
            THEN IF td'.calls[id].name = td.tool_choice.name
                 THEN Admitted(id) ELSE Rejected(id)
            ELSE Admitted(id)]_vars

\* A Gemini client configured with " Disabled " has rejected an end_call,
\* and another configured with a function has rejected one call and
\* admitted the named one (two states; the first is the one named here).
C21_Witness ==
    /\ td.provider = "gemini"
    /\ td.tool_choice.text = " Disabled "
    /\ \E id \in CallIds :
          /\ td.calls[id] = [pc |-> "done", name |-> "end_call"]
          /\ td.outputs[id] = <<Output("error", FALSE, "policy")>>
    /\ td.ctx = "None"


\* C22: however the tool calls interleave, the data actions executed in a
\* session never exceed the per-session cap, and a call made at the cap or
\* with arguments over the byte limit is refused without executing and
\* without using up an invocation.
C22_InvocationCap ==
    [][/\ td'.executions <= GENESYS_MAX_ACTION_CALLS_PER_SESSION
       /\ td'.count = td'.executions
       /\ \A id \in CallIds, name \in Handlers, is_dict \in BOOLEAN,
             payload_bytes \in ArgSizes :
              /\ CallGenesysTool(id, name, is_dict, payload_bytes)
              /\ \/ td.count >= GENESYS_MAX_ACTION_CALLS_PER_SESSION
                 \/ payload_bytes > GENESYS_MAX_TOOL_ARGUMENT_BYTES
              => /\ td'.calls[id].pc = "done"
                 /\ td'.executions = td.executions
                 /\ td'.count = td.count
                 /\ \A k \in 1..Len(td'.outputs[id]) :
                       td'.outputs[id][k].status = "error"]_vars

\* Two data actions are executing at once, which uses up the cap, and a
\* third call has been refused.
C22_Witness ==
    /\ td.executions = GENESYS_MAX_ACTION_CALLS_PER_SESSION
    /\ Cardinality({id \in CallIds : td.calls[id].pc = "executing"}) = 2
    /\ \E id \in CallIds :
          /\ td.calls[id].pc = "done" /\ td.calls[id].name \in Handlers
          /\ Len(td.outputs[id]) = 1 /\ td.outputs[id][1].status = "error"


\* C23: when a data-action handler raises, the cap and size refusals
\* included, exactly one function-call output carrying status "error", an
\* error_type and a message is sent for that call id, the reader keeps
\* running and no disconnect is recorded.
C23_HandlerErrorReported ==
    [][\A id \in CallIds :
          /\ td.calls[id].pc # "done" /\ td'.calls[id].pc = "done"
          /\ td'.calls[id].name \in Handlers
          /\ IsToolCallPermitted(td.policy, td'.calls[id].name)
          /\ td.running
          /\ td'.executions = td.executions
          /\ td'.outputs[id] # <<Output("ok", FALSE, "handler")>>
          => /\ td'.outputs[id] = <<Output("error", TRUE, "handler")>>
             /\ td'.reader = "running"
             /\ td'.ctx = td.ctx]_vars


\* C24: when the carrier closes its WebSocket the session terminates
\* without requesting a summary: the main task, finding the socket closed,
\* sends no summary request to the provider and does not enter the wait
\* for the summary.
C24_CarrierCloseSkipsSummary ==
    [][pc["main"] = "recv" /\ ~wsOpen /\ pc'["main"] # "recv"
       => /\ toProvider' = toProvider
          /\ pc'["main"] # "d_summary"]_vars


\* An ISO-8601 duration of days, hours, minutes and seconds, matched to
\* the end of the text: P, an optional day count, and optionally T with at
\* least one of hours, minutes and seconds; at least one component.
WellFormedDuration(s) ==
    /\ s # <<>> /\ s[1] = "P"
    /\ LET d == Group(s, 2, "D") IN
       IF d.next > Len(s) THEN d.next > 2
       ELSE /\ s[d.next] = "T"
            /\ LET h == Group(s, d.next + 1, "H")
                   m == Group(s, h.next, "M")
                   sec == Group(s, m.next, "S")
               IN sec.next = Len(s) + 1 /\ sec.next > d.next + 1

\* C26: duration parsing gives the seconds of a well-formed ISO-8601
\* duration, takes a plain number through a numeric fallback, and raises
\* for every malformed text: once the delay of a 429 is settled, a
\* retryAfter parameter that is a plain number has supplied it, and one
\* that is neither a duration nor a number has not.
C26_DurationParsing ==
    err.source # "none" /\ err.retryAfter.present =>
       /\ Float(err.retryAfter.text).ok =>
             /\ err.source = "retryAfter"
             /\ err.used_delay = Float(err.retryAfter.text).val
       /\ err.source = "retryAfter" =>
             \/ WellFormedDuration(err.retryAfter.text)
             \/ Float(err.retryAfter.text).ok


Answered == req # NoRequest /\ req.response # NoRequest

\* The status of the first test the request fails, in the order path, API
\* key, required headers; 0 when it passes the three.
FirstFailure(r, path_ok) ==
    IF ~path_ok THEN 404
    ELSE IF Get(r.x_api_key) # GENESYS_API_KEY THEN 401
    ELSE IF MissingHeaders(r) THEN 400
    ELSE 0

HealthCheck(r) == r.path = <<"/">> /\ Lower(Get(r.upgrade)) # "websocket"

\* The claim with the path test as given: the path is /audiohook.
C25_AcceptsOnlyExactPath ==
    Answered /\ req.response = Accept => req.request.path = GENESYS_PATH

\* C25: the upgrade is accepted only when the path starts with /audiohook,
\* x-api-key equals the configured secret and all required headers are
\* present; otherwise the answer is 404 for the path, 401 for a missing or
\* wrong key, 400 for missing headers, tested in this order; `/` without an
\* upgrade header is answered 200 with body OK; no request without the
\* valid API key is accepted.
C25_RequestValidation ==
    Answered =>
       LET r == req.request
           ff == FirstFailure(r, StartsWith(r.path, GENESYS_PATH))
       IN /\ req.response = Accept =>
                /\ StartsWith(r.path, GENESYS_PATH)
                /\ r.x_api_key = Text(GENESYS_API_KEY)
                /\ ~MissingHeaders(r)
          /\ HealthCheck(r) => req.response = Response(200, "OK\n")
          /\ ~HealthCheck(r) /\ r.path # <<>> /\ ff # 0 => req.response.status = ff
          /\ ~HealthCheck(r) /\ ff = 0 => req.response.status \in {101, 400}

\* A request for /audiohook/v2 with the right key and every header has
\* been accepted.
C25_Witness ==
    /\ Answered
    /\ req.response = Accept
    /\ req.request.path = GENESYS_PATH \o <<"/", "v", "2">>
    /\ req.request.x_api_key = Text(GENESYS_API_KEY)


Blocks(result) == {result[k].block : k \in 1..Len(result)}

\* C27: whatever the arguments, the composed instructions hold the master
\* block as the first tier, then the admin prompt with the names
\* substituted, the customer-data block when customer data is supplied and
\* a language directive when a language is supplied; a language never
\* removes the master block.
C27_PromptComposition ==
    prompt.composed =>
       /\ prompt.result[2] = MASTER_SYSTEM_PROMPT
       /\ prompt.result[4].text =
             Substituted(prompt.admin_prompt, prompt.agent_name, prompt.company_name)
       /\ prompt.language # "" =>
             LANGUAGE_SYSTEM_PROMPT(prompt.language)
                \in {prompt.result[k] : k \in 1..Len(prompt.result)}
       /\ DataKeys(prompt.customer_data) # <<>> =>
             "customer_data" \in Blocks(prompt.result)


\* C28: every outbound provider frame is sent while holding the client's
\* mutex, and is put on the provider socket only when the client's running
\* flag is true at that moment.
C28_SendsGuarded ==
    \A f \in td.on_socket : f.locked /\ f.running


\* C29: a rate-limit pause only suspends the reader: a provider event that
\* arrives while the carrier task sleeps in its backoff is processed and
\* leaves the reader task running, so that it is still there when the
\* backoff ends.
C29_PauseKeepsReader ==
    [][/\ pc["main"] = "backoff" /\ pc'["main"] = "backoff"
       /\ pc["reader"] = "recv"
       /\ nProvider' = nProvider + 1
       /\ client'.ws = "open"
       => pc'["reader"] # "done"]_vars


\* The carrier read loop ends on an unexpected error: recv() or
\* handle_audio_frame raises something other than ConnectionClosed, the
\* loop breaks, and the cleanup after the loop closes the client (which
\* cancels the reader task).  session.running is not touched and
\* stop_audio_processing is not called.
RecvUnexpectedError ==
    /\ pc["main"] = "recv"
    /\ wsOpen
    /\ pc' = [CancelReader(pc, client) EXCEPT !["main"] = "done"]
    /\ client' = [CloseClient(client) EXCEPT !.future =
                     IF client.exists /\ pc["reader"] = "d_summary"
                     THEN "none" ELSE client.future]
    /\ running' = IF client.exists /\ InDisconnect("reader") THEN FALSE ELSE running
    /\ pacer' = IF client.exists /\ InDisconnect("reader")
                THEN StopPacer(pacer) ELSE pacer
    /\ fut' = [t \in Tasks |->
                  IF t = "main" \/ client.exists THEN "none" ELSE fut[t]]
    /\ out' = [out EXCEPT !["main"] = NoFrame]
    /\ reason' = [reason EXCEPT !["main"] = "none"]
    /\ UNCHANGED <<client_seq, server_seq, in_backoff, retry_count,
                   audio_buffer, pendingAudio, msgTokens, binTokens, wsOpen,
                   nCarrier, nProvider, carrierSeq, session_id, msg, wire,
                   toProvider>>
    /\ UNCHANGED auxVars

\* The carrier side with every way the read loop ends, and the pacer's
\* loop.  The event loop keeps running the pacer's wake-ups and the steps
\* of a teardown in progress.
NextTeardown ==
    \/ NextCarrier
    \/ RecvUnexpectedError
    \/ PacerTick

SpecTeardown ==
    /\ Init
    /\ [][NextTeardown]_vars
    /\ WF_vars(PacerTick)
    /\ \A t \in Tasks :
          /\ WF_vars(\E res \in {"obj", "error"} : DisconnectSummaryDone(t, res))
          /\ WF_vars(DisconnectSend(t))
          /\ WF_vars(DisconnectFinish(t))

TasksStopped ==
    /\ pacer \notin {"sleep", "acquire"}
    /\ pc["reader"] \in {"none", "done"}
    /\ client.exists => client.ws # "open"

\* C30: after any teardown path (carrier close, disconnect_session, carrier
\* connection closed, the read loop ending on an unexpected error) the
\* pacer task and the reader task are eventually no longer running and the
\* provider socket is closed.
C30_TeardownStopsTasks == (pc["main"] = "done") ~> TasksStopped


\* Everything of the session but the last-observed client sequence and the
\* carrier's own counters.
sessionState ==
    <<server_seq, running, in_backoff, retry_count, audio_buffer, client, pc,
      out, reason, fut, pacer, pendingAudio, msgTokens, binTokens, session_id,
      msg, wire, toProvider>>

C33_PacerSendsOnAllThree ==
    [][/\ pt.sent' # pt.sent =>
             /\ pt.audio_buffer # <<>>
             /\ pt.now - pt.last_frame_time >= AUDIO_FRAME_SEND_INTERVAL
             /\ \E d \in {0, 1} : PacingAcquire(TRUE, d)
             /\ pt.sent' = Append(pt.sent, [frame |-> Head(pt.audio_buffer),
                                            at |-> pt.now])
             /\ pt.audio_buffer' = Tail(pt.audio_buffer)
             /\ \A k \in 1..Len(pt.sent) :
                   pt.now - pt.sent[k].at >= AUDIO_FRAME_SEND_INTERVAL
       /\ \/ \E d \in {0, 1} : PacingAcquire(FALSE, d)
          \/ /\ PacingLoop
             /\ \/ pt.audio_buffer = <<>>
                \/ pt.clock - pt.last_frame_time < AUDIO_FRAME_SEND_INTERVAL
          => /\ pt.sent' = pt.sent
             /\ pt.audio_buffer' = pt.audio_buffer]_vars

\* Two frames have been sent, and a third is buffered while the interval
\* since the second has not elapsed.
C33_Witness ==
    /\ pt.pc = "sleep"
    /\ Len(pt.sent) = 2
    /\ pt.audio_buffer # <<>>
    /\ pt.clock - pt.last_frame_time < AUDIO_FRAME_SEND_INTERVAL

\* The bytes of the frames delivered, in order of delivery.
RECURSIVE Flat(_)
Flat(frames) == IF frames = <<>> THEN <<>> ELSE Head(frames) \o Flat(Tail(frames))

\* The bytes of a sequence that are not silence.
Voiced(q) == SelectSeq(q, LAMBDA b : b # GENESYS_PCMU_SILENCE_BYTE)

\* The bytes pending and arriving are emitted as frames: every full frame,
\* in order, and the rest padded with silence after it.
FlushedAs(ext, frames) ==
    LET k == Len(ext) \div GENESYS_PCMU_FRAME_SIZE
        r == Len(ext) % GENESYS_PCMU_FRAME_SIZE
    IN  /\ Len(frames) = k + (IF r > 0 THEN 1 ELSE 0)
        /\ Voiced(Flat(frames)) = ext
        /\ r > 0 => /\ SubSeq(frames[k + 1], 1, r) = SubSeq(ext, Len(ext) - r + 1, Len(ext))
                    /\ \A j \in (r + 1)..GENESYS_PCMU_FRAME_SIZE : frames[k + 1][j] = GENESYS_PCMU_SILENCE_BYTE

\* C34: the chunker hands the callback only frames of exactly the frame
\* size, whose bytes are in the order of their arrival; after every call
\* made with a callback installed less than one frame is pending; the flush
\* at the end of a turn emits the last partial frame padded with silence
\* and leaves nothing pending; an interruption discards the pending partial
\* frame, delivers nothing, and the discarded bytes are never delivered.
C34_ChunkerFrames ==
    [][/\ \A f \in 1..Len(ck'.delivered) : Len(ck'.delivered[f]) = GENESYS_PCMU_FRAME_SIZE
       /\ LET bytes == Voiced(Flat(ck'.delivered))
          IN  \A a, b \in 1..Len(bytes) : a < b => bytes[a] < bytes[b]
       /\ ck'.dropped \cap Range(Flat(ck'.delivered)) = {}
       /\ SubSeq(ck'.delivered, 1, Len(ck.delivered)) = ck.delivered
       /\ \A n \in 0..MaxChunk, tc \in BOOLEAN, i \in BOOLEAN :
             ChunkerMessage(n, tc, i) /\ ck.running /\ ck.callback =>
                /\ Len(ck'.pending) < GENESYS_PCMU_FRAME_SIZE
                /\ tc => /\ ck'.pending = <<>>
                         /\ FlushedAs(ck.pending \o Chunk(ck.received, n), SubSeq(ck'.delivered, Len(ck.delivered) + 1, Len(ck'.delivered)))
       /\ ChunkerClose /\ ck.callback =>
             /\ ck'.pending = <<>>
             /\ FlushedAs(ck.pending, SubSeq(ck'.delivered, Len(ck.delivered) + 1, Len(ck'.delivered)))
       /\ ChunkerInterrupted /\ ck.interrupted =>
             /\ ck'.pending = <<>>
             /\ ck'.delivered = ck.delivered
             /\ Range(ck.pending) \subseteq ck'.dropped]_vars

\* A turn ended with a padded frame, a later interruption discarded a
\* partial frame, and frames were delivered after it.
C34_Witness ==
    /\ \E f \in 1..Len(ck.delivered) :
          /\ ck.delivered[f][GENESYS_PCMU_FRAME_SIZE] = GENESYS_PCMU_SILENCE_BYTE
          /\ \E b \in ck.dropped : b > ck.delivered[f][1]
          /\ \E g \in (f + 1)..Len(ck.delivered) : \E b \in ck.dropped : ck.delivered[g][1] > b
    /\ ck.pending # <<>>

\* C35: once a terminal frame (`disconnect` or `closed`) is the last JSON
\* frame on the carrier socket, nothing more is put on the socket: no JSON
\* frame and no audio frame.
C35_NothingAfterTerminal ==
    [][wire.json.type \in {"disconnect", "closed"} => wire' = wire]_vars

\* The carrier side with the tool callback and the carrier's 429: a
\* disconnect_session entered from the reader runs beside handle_error.
NextWake ==
    \/ NextCallback
    \/ RecvError429
    \/ BackoffWake

SpecWake == Init /\ [][NextWake]_vars

\* The session has been torn down: running is false and the provider
\* client has been closed (a client that is being connected has no socket
\* either, but then running is still true).
TornDown == ~running /\ client.exists /\ client.ws = "none"

OpenClients == {i \in 1..Len(ho.clients) : ho.clients[i].ws = "open"}
LivePacers == {i \in 1..Len(ho.tasks) : ho.tasks[i] = "run"}

\* C37: at any time at most one provider client is open and at most one
\* pacer task is alive, and the client or the task the session refers to is
\* replaced only when the previous one is closed or ended.
C37_OneClientOnePacer ==
    [][/\ Cardinality(OpenClients') <= 1
       /\ Cardinality(LivePacers') <= 1
       /\ (ho'.client # ho.client /\ ho.client # 0) => ho.client \notin OpenClients
       /\ (ho'.task # ho.task /\ ho.task # 0 /\ ho'.task # 0) => ho.task \notin LivePacers]_vars

\* The carrier side, the tool callback run by the reader, and the
\* provider's response.done events.
NextSummary ==
    \/ NextCallback
    \/ \E kind \in {"plain", "ending_analysis"} : ProvResponseDone(kind)

SpecSummary == Init /\ [][NextSummary]_vars

\* Task t waits in await_summary for the future the client holds.
AwaitsSummary(t) == pc[t] \in {"d_summary", "c_summary"} /\ client.future = t /\ fut[t] = "pending"

C39_ContextConsumedOnce ==
    [][/\ dc'.await_disconnect_on_done = (dc'.disconnect_context # "None")
       /\ dc'.callbacks <= dc'.consumed /\ dc'.consumed <= dc'.calls
       /\ dc'.consumed # dc.consumed =>
             /\ dc'.consumed = dc.consumed + 1
             /\ dc.await_disconnect_on_done /\ dc.disconnect_context # "None"
             /\ ~dc'.await_disconnect_on_done /\ dc'.disconnect_context = "None"
             /\ dc'.callbacks = dc.callbacks
       /\ dc'.callbacks # dc.callbacks =>
             /\ dc'.callbacks = dc.callbacks + 1
             /\ ~dc.await_disconnect_on_done /\ dc.disconnect_context = "None"
       /\ (dc'.await_disconnect_on_done /\ ~dc.await_disconnect_on_done) \/ (dc'.disconnect_context \notin {"None", dc.disconnect_context}) =>
             /\ dc.pc = "items" /\ dc.items # <<>> /\ ToolAction(Head(dc.items)) # "None"
             /\ dc'.calls = dc.calls + 1]_vars

\* A Gemini reader has handled two call-control calls, the second replacing
\* the context of the first, consumed the context on turn_complete and run
\* the callback once.
C39_Witness ==
    /\ dc.pc # "none"
    /\ dc.provider = "gemini"
    /\ dc.calls = 2 /\ dc.consumed = 1 /\ dc.callbacks = 1

====
